---- MODULE Spec2Model ----

(***************************************************************************)
(* A model of clox, the bytecode compiler and virtual machine of the Lox   *)
(* repository: the hash table, the object heap and its mark-sweep          *)
(* collector, the single-pass compiler (driven by syntax trees, the token  *)
(* scanner being outside the model) and the dispatch loop of the VM.       *)
(*                                                                         *)
(* A machine record m carries the fields of the C struct VM together with  *)
(* the heap.  Every C function that changes the machine is an operator     *)
(* from machine to machine; a function's return value travels in m.ret.    *)
(***************************************************************************)
EXTENDS Integers, Sequences, FiniteSets, TLC

(***************************************************************************)
(* Bounds of the model.                                                    *)
(***************************************************************************)
MaxObjects == 90      \* heap cells the model can hold at once
StackSlots == 66      \* modelled prefix of vm.stack
MaxLines   == 2       \* interpret() calls after initVM in one behaviour
MaxGC      == 1       \* collections in one behaviour
LoopBits   == 6       \* a while loop runs at most 2^LoopBits iterations
MaxGcAt    == 80      \* how far into a step the collecting request may lie
TurnBits   == 15      \* run() followed whole takes at most 2^TurnBits turns
MaxWord    == 3       \* the longest of the words spelled out of WordLetters
MaxBlocks  == 3       \* blocks that the requests made of reallocate() are about
MaxUnits   == 4       \* the largest of these blocks, in units of 256 KiB

NULL == 0

\* s; rest   The statements that yield the state s run to their end, and
\* rest runs on what they leave.  (A definition is computed when it is
\* first used; the test <<s>> = << >> is always false, and making it
\* computes s before rest starts.)
Then(s, rest(_)) == IF <<s>> = << >> THEN s ELSE rest(s)

\* for (i = lo; i <= hi; i++) s = body(s, i);   The range is run in two
\* halves, first then second, so that the iterations happen in order.
RECURSIVE Loop(_, _, _, _)
Loop(body(_, _), s, lo, hi) ==
    CASE lo > hi -> s
      [] lo = hi -> body(s, lo)
      [] OTHER   -> LET s1 == Loop(body, s, lo, (lo + hi) \div 2)
                    IN  IF <<s1>> = << >> THEN s1
                        ELSE Loop(body, s1, (lo + hi) \div 2 + 1, hi)

\* while (test(s)) s = body(s);   at most 2^n iterations, run in order.
RECURSIVE While(_, _, _, _)
While(test(_), body(_), s, n) ==
    CASE ~test(s) -> s
      [] n = 0    -> body(s)
      [] OTHER    -> LET s1 == While(test, body, s, n - 1)
                     IN  IF <<s1>> = << >> THEN s1
                         ELSE While(test, body, s1, n - 1)

(***************************************************************************)
(* value.h: the tagged Value.  Booleans are carried as 0 / 1.              *)
(***************************************************************************)
NIL_VAL        == [type |-> "VAL_NIL", as |-> 0]
BOOL_VAL(b)    == [type |-> "VAL_BOOL", as |-> IF b THEN 1 ELSE 0]
NUMBER_VAL(n)  == [type |-> "VAL_NUMBER", as |-> n]
OBJ_VAL(o)     == [type |-> "VAL_OBJ", as |-> o]
IS_NIL(v)      == v.type = "VAL_NIL"
IS_BOOL(v)     == v.type = "VAL_BOOL"
IS_NUMBER(v)   == v.type = "VAL_NUMBER"
IS_OBJ(v)      == v.type = "VAL_OBJ"
AS_OBJ(v)      == v.as

(***************************************************************************)
(* object.c: 32-bit FNV-1a.  A hash is kept as two 16-bit limbs <<hi, lo>> *)
(* so that every intermediate product stays inside TLC's integers.        *)
(* Characters are ASCII codes.                                             *)
(***************************************************************************)
\* bit k of a ^ b, in place
xorBit(a, b, k) == ((((a \div (2 ^ k)) % 2) + ((b \div (2 ^ k)) % 2)) % 2) * (2 ^ k)

\* a ^ b for two bytes
xorBits(a, b) ==
    ((xorBit(a, b, 0) + xorBit(a, b, 1)) + (xorBit(a, b, 2) + xorBit(a, b, 3)))
    + ((xorBit(a, b, 4) + xorBit(a, b, 5)) + (xorBit(a, b, 6) + xorBit(a, b, 7)))

\* hash ^= key[i]; hash *= 16777619;   (16777619 = 2^24 + 403, modulo 2^32)
fnvStep(h, c) ==
    LET lo1  == (h[2] \div 256) * 256 + xorBits(h[2] % 256, c)
        hi1  == h[1]
        plo  == lo1 * 403
    IN  << (hi1 * 403 + (plo \div 65536) + (lo1 % 256) * 256) % 65536,
           plo % 65536 >>

\* 2166136261 = 0x811C9DC5
fnv1a32(key) ==
    Loop(LAMBDA h, i : fnvStep(h, key[i]), <<33052, 40389>>, 1, Len(key))

hashString(key) == fnv1a32(key)

\* hash % capacity for a two-limb hash
HashMod(h, capacity) ==
    ((h[1] % capacity) * (65536 % capacity) + (h[2] % capacity)) % capacity

(***************************************************************************)
(* table.h / table.c: open addressing with linear probing.                 *)
(* entries[i] of the C array is entries[i + 1] here.                       *)
(***************************************************************************)
EmptyEntry == [key |-> NULL, value |-> NIL_VAL]
Tombstone  == [key |-> NULL, value |-> BOOL_VAL(TRUE)]

initTable == [count |-> 0, capacity |-> 0, entries |-> << >>]

\* What ObjClass.methods holds when nothing has initialised it and the
\* block did not happen to be zero: any use of it is a wild access.
IndeterminateTable == [count |-> -1, capacity |-> -1, entries |-> << >>]
IsIndeterminate(t) == t.capacity = -1

GROW_CAPACITY(capacity) == IF capacity < 8 THEN 8 ELSE capacity * 2

\* The comparison the probe loop of findEntry makes between two keys.
keyMatches(heap, entryKey, key) == heap[entryKey].hash = heap[key].hash

RECURSIVE findEntryFrom(_, _, _, _, _, _)
findEntryFrom(heap, entries, capacity, key, index, tombstone) ==
    LET entry == entries[index + 1] IN
    IF entry.key = NULL
    THEN IF IS_NIL(entry.value)
         THEN (IF tombstone # -1 THEN tombstone ELSE index)
         ELSE findEntryFrom(heap, entries, capacity, key,
                            (index + 1) % capacity,
                            IF tombstone = -1 THEN index ELSE tombstone)
    ELSE IF keyMatches(heap, entry.key, key)
         THEN index
         ELSE findEntryFrom(heap, entries, capacity, key,
                            (index + 1) % capacity, tombstone)

findEntry(heap, entries, capacity, key) ==
    findEntryFrom(heap, entries, capacity, key,
                  HashMod(heap[key].hash, capacity), -1)

\* The old bucket adjustCapacity reads on iteration i of its copy loop.
adjustSource(i) == 1

\* The copy loop of adjustCapacity: re-insert into the fresh array.
\* t is the table under construction, [entries, count].
adjustCopyStep(heap, old, capacity, t, i) ==
    LET entry == old[adjustSource(i) + 1] IN
    IF entry.key = NULL THEN t
    ELSE LET dst == findEntry(heap, t.entries, capacity, entry.key)
         IN  [entries |-> [t.entries EXCEPT ![dst + 1] =
                              [key |-> entry.key, value |-> entry.value]],
              count   |-> t.count + 1]

adjustCopy(heap, old, oldCapacity, entries, capacity) ==
    Loop(LAMBDA t, i : adjustCopyStep(heap, old, capacity, t, i),
         [entries |-> entries, count |-> 0], 0, oldCapacity - 1)

tableGetPure(heap, table, key) ==
    IF table.count = 0 THEN [found |-> FALSE, value |-> NIL_VAL]
    ELSE LET idx == findEntry(heap, table.entries, table.capacity, key)
             entry == table.entries[idx + 1]
         IN  IF entry.key = NULL THEN [found |-> FALSE, value |-> NIL_VAL]
             ELSE [found |-> TRUE, value |-> entry.value]

tableDeletePure(heap, table, key) ==
    IF table.count = 0 THEN [table |-> table, ret |-> FALSE]
    ELSE LET idx == findEntry(heap, table.entries, table.capacity, key)
             entry == table.entries[idx + 1]
         IN  IF entry.key = NULL THEN [table |-> table, ret |-> FALSE]
             ELSE [table |-> [table EXCEPT !.entries[idx + 1] = Tombstone],
                   ret |-> TRUE]

\* memcpy(entry->key->chars, chars, length) == 0 : memcpy returns its
\* destination, a non-null pointer, so the test is the constant below.
charsCompare(keyChars, chars) == FALSE

\* The probe loop of tableFindString.  The memcpy of the third conjunct
\* runs when length and hash agree and overwrites the key's characters.
RECURSIVE findStringFrom(_, _, _, _, _)
findStringFrom(heap, table, chars, hash, index) ==
    LET entry == table.entries[index + 1] IN
    IF entry.key = NULL
    THEN IF IS_NIL(entry.value) THEN [heap |-> heap, ret |-> NULL]
         ELSE findStringFrom(heap, table, chars, hash,
                             (index + 1) % table.capacity)
    ELSE IF Len(heap[entry.key].chars) = Len(chars)
            /\ heap[entry.key].hash = hash
         THEN LET copied == [heap EXCEPT ![entry.key].chars = chars] IN
              IF charsCompare(heap[entry.key].chars, chars)
              THEN [heap |-> copied, ret |-> entry.key]
              ELSE findStringFrom(copied, table, chars, hash,
                                  (index + 1) % table.capacity)
         ELSE findStringFrom(heap, table, chars, hash,
                             (index + 1) % table.capacity)

tableFindString(heap, table, chars, hash) ==
    IF table.count = 0 THEN [heap |-> heap, ret |-> NULL]
    ELSE findStringFrom(heap, table, chars, hash, HashMod(hash, table.capacity))

removeWhiteStep(heap, table, i) ==
    LET entry == table.entries[i + 1] IN
    IF entry.key # NULL /\ ~heap[entry.key].isMarked
    THEN tableDeletePure(heap, table, entry.key).table
    ELSE table

\* A tableRemoveWhite that does not look at the mark bit: it removes the
\* key of a marked string too.
tableRemoveAny(heap, table) ==
    [table EXCEPT !.entries = [i \in 1 .. table.capacity |->
                                 IF @[i].key # NULL THEN Tombstone ELSE @[i]]]

tableRemoveWhite(heap, table) ==
    Loop(LAMBDA t, i : removeWhiteStep(heap, t, i), table, 0, table.capacity - 1)

(***************************************************************************)
(* The heap.  An object identifier stands for the address of an Obj; Free  *)
(* is a cell that holds no object.  vm.objects is the sequence of the      *)
(* linked objects, head first.                                             *)
(***************************************************************************)
ObjIds == 1 .. MaxObjects
Free == [type |-> "FREE", isMarked |-> FALSE]
Live(heap, o) == heap[o].type # "FREE"
Range(f) == {f[x] : x \in DOMAIN f}

\* The process died on a wild access (an indeterminate table was used).
crash(m) == [m EXCEPT !.status = "crashed"]

\* The Table behind a Table* : vm.globals, vm.strings, klass->methods,
\* instance->fields.
GetTable(m, ref) ==
    CASE ref[1] = "globals" -> m.globals
      [] ref[1] = "strings" -> m.strings
      [] ref[1] = "methods" -> m.heap[ref[2]].methods
      [] ref[1] = "fields"  -> m.heap[ref[2]].fields

PutTable(m, ref, t) ==
    CASE ref[1] = "globals" -> [m EXCEPT !.globals = t]
      [] ref[1] = "strings" -> [m EXCEPT !.strings = t]
      [] ref[1] = "methods" -> [m EXCEPT !.heap[ref[2]].methods = t]
      [] ref[1] = "fields"  -> [m EXCEPT !.heap[ref[2]].fields = t]

(***************************************************************************)
(* Reachability from the roots, as a graph property of a machine: what     *)
(* the collector is specified to preserve.                                 *)
(***************************************************************************)
ValueRefs(v) == IF IS_OBJ(v) THEN {AS_OBJ(v)} ELSE {}

TableRefs(t) ==
    IF IsIndeterminate(t) THEN {}
    ELSE UNION {(({e.key} \ {NULL}) \cup ValueRefs(e.value)) : e \in Range(t.entries)}

ObjRefs(heap, o) ==
    LET obj == heap[o] IN
    CASE obj.type = "OBJ_BOUND_METHOD" -> ValueRefs(obj.receiver) \cup {obj.method}
      [] obj.type = "OBJ_CLASS"    -> {obj.name} \cup TableRefs(obj.methods)
      [] obj.type = "OBJ_CLOSURE"  -> {obj.function} \cup (Range(obj.upvalues) \ {NULL})
      [] obj.type = "OBJ_FUNCTION" -> ({obj.name} \ {NULL})
                                      \cup UNION {ValueRefs(v) : v \in Range(obj.constants)}
      [] obj.type = "OBJ_INSTANCE" -> {obj.klass} \cup TableRefs(obj.fields)
      [] obj.type = "OBJ_UPVALUE"  -> ValueRefs(obj.closed)
      [] OTHER -> {}

RECURSIVE openUpvalueIds(_, _)
openUpvalueIds(heap, upvalue) ==
    IF upvalue = NULL \/ ~Live(heap, upvalue) THEN {}
    ELSE {upvalue} \cup openUpvalueIds(heap, heap[upvalue].next)

Roots(m) ==
    UNION {ValueRefs(m.stack[i]) : i \in 1 .. m.stackTop}
    \cup {m.frames[i].closure : i \in 1 .. Len(m.frames)}
    \cup openUpvalueIds(m.heap, m.openUpvalues)
    \cup TableRefs(m.globals)
    \cup Range(m.compilerRoots)
    \cup ({m.initString} \ {NULL})

RECURSIVE ReachFrom(_, _, _)
ReachFrom(heap, frontier, seen) ==
    IF frontier = {} THEN seen
    ELSE LET next == (UNION {ObjRefs(heap, o) : o \in frontier}) \ seen
         IN  ReachFrom(heap, next, seen \cup next)

Reachable(m) == ReachFrom(m.heap, Roots(m), Roots(m))

(***************************************************************************)
(* memory.c: marking.  m.grayed is the history of vm.grayStack in the      *)
(* running collection: every object pushed on it, in the order of the      *)
(* pushes.                                                                 *)
(***************************************************************************)
\* A markObject that does not look at the mark bit.
markObjectAgain(m, object) ==
    IF object = NULL THEN m
    ELSE IF ~Live(m.heap, object) THEN [m EXCEPT !.ub = TRUE]
    ELSE [m EXCEPT !.heap[object].isMarked = TRUE,
                   !.grayStack = Append(@, object),
                   !.grayed = Append(@, object)]

markObject(m, object) ==
    IF object = NULL THEN m
    ELSE IF ~Live(m.heap, object) THEN [m EXCEPT !.ub = TRUE]
    ELSE IF m.heap[object].isMarked THEN m
    ELSE [m EXCEPT !.heap[object].isMarked = TRUE,
                   !.grayStack = Append(@, object),
                   !.grayed = Append(@, object)]

markValue(m, value) ==
    IF IS_OBJ(value) THEN markObject(m, AS_OBJ(value)) ELSE m

markArray(m, values) ==
    Loop(LAMBDA s, i : markValue(s, values[i]), m, 1, Len(values))

markEntry(m, entry) ==
    Then(markObject(m, entry.key), LAMBDA m1 : markValue(m1, entry.value))

markTable(m, table) ==
    IF IsIndeterminate(table) THEN crash(m)
    ELSE Loop(LAMBDA s, i : markEntry(s, table.entries[i + 1]),
              m, 0, table.capacity - 1)

\* the loop of blackenObject over closure->upvalues
markUpvalueArray(m, upvalues) ==
    Loop(LAMBDA s, i : markObject(s, upvalues[i]), m, 1, Len(upvalues))

blackenObject(m, object) ==
    LET obj == m.heap[object] IN
    CASE obj.type = "OBJ_BOUND_METHOD" ->
            Then(markValue(m, obj.receiver), LAMBDA m1 : markObject(m1, obj.method))
      [] obj.type = "OBJ_CLASS" ->
            Then(markObject(m, obj.name), LAMBDA m1 : markTable(m1, obj.methods))
      [] obj.type = "OBJ_CLOSURE" ->
            Then(markObject(m, obj.function),
                 LAMBDA m1 : markUpvalueArray(m1, obj.upvalues))
      [] obj.type = "OBJ_FUNCTION" ->
            Then(markObject(m, obj.name), LAMBDA m1 : markArray(m1, obj.constants))
      [] obj.type = "OBJ_INSTANCE" ->
            Then(markObject(m, obj.klass), LAMBDA m1 : markTable(m1, obj.fields))
      [] obj.type = "OBJ_UPVALUE" ->
            markValue(m, obj.closed)
      [] OTHER -> m

\* the loop of markRoots over vm.stack .. vm.stackTop
markStack(m) ==
    Loop(LAMBDA s, slot : markValue(s, s.stack[slot + 1]), m, 0, m.stackTop - 1)

\* the loop of markRoots over vm.frames
markFrames(m) ==
    Loop(LAMBDA s, i : markObject(s, s.frames[i + 1].closure),
         m, 0, Len(m.frames) - 1)

\* the loop of markRoots over vm.openUpvalues
RECURSIVE markOpenUpvalues(_, _)
markOpenUpvalues(m, upvalue) ==
    IF upvalue = NULL THEN m
    ELSE IF ~Live(m.heap, upvalue) THEN [m EXCEPT !.ub = TRUE]
    ELSE Then(markObject(m, upvalue),
              LAMBDA m1 : markOpenUpvalues(m1, m.heap[upvalue].next))

\* compiler.c: the functions of the chain current, current->enclosing, ...
markCompilerRoots(m) ==
    Loop(LAMBDA s, i : markObject(s, s.compilerRoots[i]),
         m, 1, Len(m.compilerRoots))

\* markRoots without its markTable(&vm.globals): a collector that does not
\* take the globals for a root.
markNoGlobals(m) == m

\* The globals root of markRoots.
markGlobals(m) == markTable(m, m.globals)

markRoots(m) ==
    Then(markStack(m), LAMBDA m1 :
    Then(markFrames(m1), LAMBDA m2 :
    Then(markOpenUpvalues(m2, m2.openUpvalues), LAMBDA m3 :
    Then(markGlobals(m3), LAMBDA m4 :
    Then(markCompilerRoots(m4), LAMBDA m5 :
    markObject(m5, m5.initString))))))

\* one iteration of the loop of traceReferences
traceReference(m) ==
    Then([m EXCEPT !.grayStack = SubSeq(@, 1, Len(@) - 1)],
         LAMBDA popped : blackenObject(popped, m.grayStack[Len(m.grayStack)]))

traceReferences(m) ==
    Then(While(LAMBDA s : Len(s.grayStack) > 0, traceReference, m, LoopBits),
         LAMBDA m1 : IF Len(m1.grayStack) > 0 THEN [m1 EXCEPT !.status = "bound"]
                     ELSE m1)

\* The functions the process enters by name: initVM(), interpret() and one
\* turn of the loop of run(), which main.c and the loop call;
\* reallocate(), which the macros of memory.h call, and collectGarbage(),
\* which reallocate() calls; and expression(), which compiler.c declares
\* ahead of the statements that call it.
RECURSIVE clox(_, _, _)

\* sizeof, as the build for x86-64 has it
SizeOf ==
    [char |-> 1, uint8_t |-> 1, int |-> 4, pointer |-> 8, Value |-> 16, Entry |-> 24,
     ObjString |-> 40, ObjFunction |-> 72, ObjNative |-> 24, ObjUpvalue |-> 48,
     ObjClosure |-> 40, ObjClass |-> 40, ObjInstance |-> 40, ObjBoundMethod |-> 40,
     OBJ_FUNCTION |-> 4]

\* A reallocate that compares before it counts the request.
reallocateLate(m, oldSize, newSize) ==
    LET counted == [m EXCEPT !.bytesAllocated = @ + newSize - oldSize,
                             !.requests = @ + 1]
    IN  IF newSize <= oldSize THEN [m EXCEPT !.bytesAllocated = @ + newSize - oldSize]
        ELSE IF m.gcAt = -1
        THEN IF m.bytesAllocated > m.nextGC
             THEN clox("collectGarbage", counted, 0) ELSE counted
        ELSE IF m.gcAt = 1
        THEN clox("collectGarbage", [counted EXCEPT !.gcAt = 0], 0)
        ELSE IF m.gcAt > 1 THEN [counted EXCEPT !.gcAt = @ - 1]
        ELSE counted

\* reallocate(pointer, oldSize, newSize).  A growing request collects when
\* it leaves bytesAllocated above nextGC, and with DEBUG_STRESS_GC always:
\* m.gcAt = -1 is the build without DEBUG_STRESS_GC; m.gcAt = k >= 0 takes
\* the test for one that any growing request may pass and makes the k-th
\* of the running step the one that collects, 0 none.  m.requests counts
\* the growing requests of the step.
reallocate(m, oldSize, newSize) ==
    LET counted == [m EXCEPT !.bytesAllocated = @ + newSize - oldSize] IN
    IF newSize <= oldSize THEN counted
    ELSE IF m.gcAt = -1
    THEN IF counted.bytesAllocated > counted.nextGC
         THEN clox("collectGarbage", [counted EXCEPT !.requests = @ + 1], 0)
         ELSE [counted EXCEPT !.requests = @ + 1]
    ELSE IF m.gcAt = 1
    THEN clox("collectGarbage", [counted EXCEPT !.gcAt = 0, !.requests = @ + 1], 0)
    ELSE IF m.gcAt > 1 THEN [counted EXCEPT !.gcAt = @ - 1, !.requests = @ + 1]
    ELSE [counted EXCEPT !.requests = @ + 1]

\* memory.h: the macros through which the allocating functions reach
\* reallocate; size is sizeof(type).
ALLOCATE(m, size, count) == clox("reallocate", m, <<0, size * count>>)

GROW_ARRAY(m, size, oldCount, count) ==
    clox("reallocate", m, <<size * oldCount, size * count>>)

FREE_ARRAY(m, size, oldCount) == clox("reallocate", m, <<size * oldCount, 0>>)

\* FREE_ARRAY(Entry, table->entries, table->capacity) of freeTable
freeEntries(m, table) == FREE_ARRAY(m, SizeOf.Entry, table.capacity)

\* freeChunk and its freeValueArray
freeChunk(m, function) ==
    Then(reallocate(m, SizeOf.uint8_t * function.capacity, 0), LAMBDA m1 :
    Then(reallocate(m1, SizeOf.int * function.capacity, 0), LAMBDA m2 :
    reallocate(m2, SizeOf.Value * function.constCapacity, 0)))

\* A freeObject that frees a function as an ObjFunction.
freeObjectSized(m, object) ==
    LET obj  == m.heap[object]
        gone == [m EXCEPT !.heap[object] = Free]
    IN  CASE obj.type = "OBJ_BOUND_METHOD" -> reallocate(gone, SizeOf.ObjBoundMethod, 0)
          [] obj.type = "OBJ_CLASS" ->
                IF IsIndeterminate(obj.methods) THEN crash(gone)
                ELSE Then(freeEntries(gone, obj.methods), LAMBDA m1 :
                          reallocate(m1, SizeOf.ObjClass, 0))
          [] obj.type = "OBJ_CLOSURE" ->
                Then(reallocate(gone, SizeOf.pointer * obj.upvalueCount, 0), LAMBDA m1 :
                reallocate(m1, SizeOf.ObjClosure, 0))
          [] obj.type = "OBJ_FUNCTION" ->
                Then(freeChunk(gone, obj), LAMBDA m1 :
                reallocate(m1, SizeOf.ObjFunction, 0))
          [] obj.type = "OBJ_INSTANCE" ->
                Then(freeEntries(gone, obj.fields), LAMBDA m1 :
                reallocate(m1, SizeOf.ObjInstance, 0))
          [] obj.type = "OBJ_NATIVE" -> reallocate(gone, SizeOf.ObjNative, 0)
          [] obj.type = "OBJ_STRING" ->
                Then(reallocate(gone, SizeOf.char * (Len(obj.chars) + 1), 0), LAMBDA m1 :
                reallocate(m1, SizeOf.ObjString, 0))
          [] obj.type = "OBJ_UPVALUE" -> reallocate(gone, SizeOf.ObjUpvalue, 0)

(***************************************************************************)
(* memory.c: freeing and sweeping.  The cases of freeObject pass to        *)
(* reallocate the size that FREE and FREE_ARRAY take from their first      *)
(* argument: for a function that is sizeof(OBJ_FUNCTION), the size of the  *)
(* enum constant.  freeTable on the methods that newClass left as they     *)
(* were frees a wild pointer.                                              *)
(***************************************************************************)
freeObject(m, object) ==
    LET obj  == m.heap[object]
        gone == [m EXCEPT !.heap[object] = Free]
    IN  CASE obj.type = "OBJ_BOUND_METHOD" -> reallocate(gone, SizeOf.ObjBoundMethod, 0)
          [] obj.type = "OBJ_CLASS" ->
                IF IsIndeterminate(obj.methods) THEN crash(gone)
                ELSE Then(freeEntries(gone, obj.methods), LAMBDA m1 :
                          reallocate(m1, SizeOf.ObjClass, 0))
          [] obj.type = "OBJ_CLOSURE" ->
                Then(reallocate(gone, SizeOf.pointer * obj.upvalueCount, 0), LAMBDA m1 :
                reallocate(m1, SizeOf.ObjClosure, 0))
          [] obj.type = "OBJ_FUNCTION" ->
                Then(freeChunk(gone, obj), LAMBDA m1 :
                reallocate(m1, SizeOf.OBJ_FUNCTION, 0))
          [] obj.type = "OBJ_INSTANCE" ->
                Then(freeEntries(gone, obj.fields), LAMBDA m1 :
                reallocate(m1, SizeOf.ObjInstance, 0))
          [] obj.type = "OBJ_NATIVE" -> reallocate(gone, SizeOf.ObjNative, 0)
          [] obj.type = "OBJ_STRING" ->
                Then(reallocate(gone, SizeOf.char * (Len(obj.chars) + 1), 0), LAMBDA m1 :
                reallocate(m1, SizeOf.ObjString, 0))
          [] obj.type = "OBJ_UPVALUE" -> reallocate(gone, SizeOf.ObjUpvalue, 0)

\* A sweep that leaves an object whose mark bit is clear where it is.
sweepKeeping(m, object) == [m EXCEPT !.objects = Append(@, object)]

\* What sweep does with an object whose mark bit is clear: it is unlinked
\* (it does not join the objects the walk keeps) and freed.
sweepUnmarked(m, object) == freeObject(m, object)

\* A sweep that keeps a marked object and leaves its mark bit set.
sweepLeavingMark(m, object) ==
    IF m.heap[object].isMarked
    THEN [m EXCEPT !.objects = Append(@, object)]
    ELSE sweepUnmarked(m, object)

\* One iteration of the loop of sweep; m.objects is the list of the
\* objects the walk has kept so far.
sweepObject(m, object) ==
    IF m.heap[object].isMarked
    THEN [m EXCEPT !.heap[object].isMarked = FALSE,
                   !.objects = Append(@, object)]
    ELSE sweepUnmarked(m, object)

\* list is vm.objects when the walk starts
sweepList(m, list) ==
    Loop(LAMBDA s, i : sweepObject(s, list[i]),
         [m EXCEPT !.objects = << >>], 1, Len(list))

sweep(m) == sweepList(m, m.objects)

\* gcLog records, for the latest collection, what was reachable from the
\* roots when it started, which objects had their mark bit set then, what
\* it freed and what it kept.
\* the keys a table holds
TableKeys(t) == {t.entries[i].key : i \in 1 .. t.capacity} \ {NULL}

GC_HEAP_GROW_FACTOR == 2

collectGarbage(m) ==
    Then(markRoots([m EXCEPT !.grayed = << >>]), LAMBDA m1 :
    Then(traceReferences(m1), LAMBDA m2 :
    Then([m2 EXCEPT !.strings = tableRemoveWhite(m2.heap, m2.strings)], LAMBDA m3 :
    Then(sweep(m3), LAMBDA m4 :
    [m4 EXCEPT !.quarantine = Range(m.objects) \ Range(m4.objects),
               !.grayed = << >>,
               !.nextGC = m4.bytesAllocated * GC_HEAP_GROW_FACTOR,
               !.gcLog = [runs  |-> m.gcLog.runs + 1,
                          reach |-> Reachable(m),
                          marked |-> {o \in Range(m.objects) : m.heap[o].isMarked},
                          grayed |-> m4.grayed,
                          objects |-> Range(m.objects),
                          before |-> m.bytesAllocated,
                          threshold |-> m.nextGC,
                          after |-> m4.bytesAllocated,
                               freed |-> Range(m.objects) \ Range(m4.objects),
                               kept  |-> Range(m4.objects),
                               internedBefore |-> TableKeys(m.strings),
                               interned |-> TableKeys(m4.strings)]]))))

(***************************************************************************)
(* vm.c: the value stack.  stack[i] of the C array is stack[i + 1] here;   *)
(* stackTop counts the slots in use.  Slots above stackTop keep their old  *)
(* contents.  m.stack is the modelled prefix of vm.stack, and "bound"      *)
(* marks a run that left it.  A push with STACK_MAX slots in use writes    *)
(* outside the array and a pop with none in use reads outside it: m.fault  *)
(* names the one that did.                                                 *)
(***************************************************************************)
UINT8_MAX == 255
UINT16_MAX == 65535

FRAMES_MAX == 64

\* FRAMES_MAX * UINT8_COUNT
STACK_MAX == FRAMES_MAX * (UINT8_MAX + 1)

push(m, value) ==
    IF m.stackTop >= STACK_MAX THEN [m EXCEPT !.status = "crashed", !.fault = "push"]
    ELSE IF m.stackTop >= Len(m.stack) THEN [m EXCEPT !.status = "bound"]
    ELSE [m EXCEPT !.stack[m.stackTop + 1] = value, !.stackTop = @ + 1]

pop(m) ==
    IF m.stackTop = 0 THEN [m EXCEPT !.ub = TRUE, !.fault = "pop"]
    ELSE [m EXCEPT !.stackTop = @ - 1, !.ret = m.stack[m.stackTop]]

peek(m, distance) ==
    IF m.stackTop - distance < 1 THEN NIL_VAL
    ELSE m.stack[m.stackTop - distance]

\* vm.stackTop[-1 - distance] = value
pokeTop(m, distance, value) ==
    IF m.stackTop - distance < 1 THEN [m EXCEPT !.ub = TRUE]
    ELSE [m EXCEPT !.stack[m.stackTop - distance] = value]

(***************************************************************************)
(* table.c: the operations that may allocate.                              *)
(***************************************************************************)
adjustCapacity(m, ref, capacity) ==
    Then(ALLOCATE(m, SizeOf.Entry, capacity), LAMBDA m1 :
    LET table == GetTable(m1, ref)
        fresh == [i \in 1 .. capacity |-> EmptyEntry]
    IN
    Then(adjustCopy(m1.heap, table.entries, table.capacity, fresh, capacity),
         LAMBDA copied :
    PutTable(freeEntries(m1, table), ref,
             [count    |-> copied.count,
              capacity |-> capacity,
              entries  |-> copied.entries])))

\* tableSet once the table has room for the key
tableStore(m, ref, key, value) ==
    LET table    == GetTable(m, ref)
        idx      == findEntry(m.heap, table.entries, table.capacity, key)
        entry    == table.entries[idx + 1]
        isNewKey == entry.key = NULL
        count    == IF isNewKey /\ IS_NIL(entry.value)
                    THEN table.count + 1 ELSE table.count
    IN  [PutTable(m, ref,
                  [table EXCEPT !.count = count,
                                !.entries[idx + 1] = [key |-> key, value |-> value]])
         EXCEPT !.ret = isNewKey]

tableSet(m, ref, key, value) ==
    LET t0 == GetTable(m, ref) IN
    IF IsIndeterminate(t0) THEN [crash(m) EXCEPT !.ret = FALSE]
    ELSE Then(IF 4 * (t0.count + 1) > 3 * t0.capacity      \* TABLE_MAX_LOAD 0.75
              THEN adjustCapacity(m, ref, GROW_CAPACITY(t0.capacity))
              ELSE m,
              LAMBDA m1 : tableStore(m1, ref, key, value))

\* m.ret is <<found, value>>
tableGet(m, ref, key) ==
    LET table == GetTable(m, ref) IN
    IF IsIndeterminate(table) THEN [crash(m) EXCEPT !.ret = <<FALSE, NIL_VAL>>]
    ELSE LET r == tableGetPure(m.heap, table, key)
         IN  [m EXCEPT !.ret = <<r.found, r.value>>]

tableDelete(m, ref, key) ==
    LET table == GetTable(m, ref) IN
    IF IsIndeterminate(table) THEN [crash(m) EXCEPT !.ret = FALSE]
    ELSE LET r == tableDeletePure(m.heap, table, key)
         IN  [PutTable(m, ref, r.table) EXCEPT !.ret = r.ret]

tableAddAllStep(m, from, to, i) ==
    LET entry == GetTable(m, from).entries[i + 1] IN
    IF entry.key # NULL THEN tableSet(m, to, entry.key, entry.value) ELSE m

tableAddAll(m, from, to) ==
    IF IsIndeterminate(GetTable(m, from)) THEN crash(m)
    ELSE Loop(LAMBDA s, i : tableAddAllStep(s, from, to, i),
              m, 0, GetTable(m, from).capacity - 1)

(***************************************************************************)
(* object.c: allocation of objects.                                        *)
(***************************************************************************)
Min(S) == CHOOSE x \in S : \A y \in S : x <= y

\* The cells the allocator may hand out.  malloc may return any unused
\* address; here it does not return, before the step that freed them is
\* over, the addresses that the step's collection freed (m.quarantine), so
\* that a pointer the step still holds to a freed object is never taken
\* for a pointer to a later object.
freeCells(m) == {o \in ObjIds : ~Live(m.heap, o)} \ m.quarantine

\* sizeof(type) of ALLOCATE_OBJ(type, objectType)
structSize(obj) ==
    CASE obj.type = "OBJ_BOUND_METHOD" -> SizeOf.ObjBoundMethod
      [] obj.type = "OBJ_CLASS"        -> SizeOf.ObjClass
      [] obj.type = "OBJ_CLOSURE"      -> SizeOf.ObjClosure
      [] obj.type = "OBJ_FUNCTION"     -> SizeOf.ObjFunction
      [] obj.type = "OBJ_INSTANCE"     -> SizeOf.ObjInstance
      [] obj.type = "OBJ_NATIVE"       -> SizeOf.ObjNative
      [] obj.type = "OBJ_STRING"       -> SizeOf.ObjString
      [] obj.type = "OBJ_UPVALUE"      -> SizeOf.ObjUpvalue

allocateObject(m, obj) ==
    Then(ALLOCATE(m, structSize(obj), 1), LAMBDA m1 :
      LET cells == freeCells(m1) IN
      IF cells = {}
      THEN [m1 EXCEPT !.status = "bound", !.ret = MaxObjects]
      ELSE LET object == Min(cells) IN
           [m1 EXCEPT !.heap[object] = [obj EXCEPT !.isMarked = FALSE],
                      !.objects = <<object>> \o @,
                      !.ret = object])

\* The state in which newClass leaves klass->methods: newClass stores the
\* name and nothing else, so the table keeps what the block held; zeroed
\* selects a block that happened to be all zero bytes.
classMethodsAfterNew(zeroed) ==
    IF zeroed THEN initTable ELSE IndeterminateTable

newClass(m, name, zeroed) ==
    allocateObject(m, [type |-> "OBJ_CLASS", isMarked |-> FALSE, name |-> name,
                       methods |-> classMethodsAfterNew(zeroed)])

newClosure(m, function) ==
    LET n == m.heap[function].upvalueCount IN
    Then(ALLOCATE(m, SizeOf.pointer, n),             \* ALLOCATE(ObjUpvalue*, n)
         LAMBDA m1 :
    allocateObject(m1, [type |-> "OBJ_CLOSURE", isMarked |-> FALSE,
                        function |-> function,
                        upvalues |-> [i \in 1 .. n |-> NULL],
                        upvalueCount |-> n]))

newFunction(m) ==
    allocateObject(m, [type |-> "OBJ_FUNCTION", isMarked |-> FALSE,
                       arity |-> 0, upvalueCount |-> 0, name |-> NULL,
                       code |-> << >>, lines |-> << >>, capacity |-> 0,
                       constants |-> << >>, constCapacity |-> 0,
                       heights |-> {}, scopes |-> {}, loops |-> {}])

newInstance(m, klass) ==
    allocateObject(m, [type |-> "OBJ_INSTANCE", isMarked |-> FALSE,
                       klass |-> klass, fields |-> initTable])

newNative(m, function) ==
    allocateObject(m, [type |-> "OBJ_NATIVE", isMarked |-> FALSE,
                       function |-> function])

\* location is a stack slot while the upvalue is open and -1 once it
\* points at its own closed field.
newUpvalue(m, slot) ==
    allocateObject(m, [type |-> "OBJ_UPVALUE", isMarked |-> FALSE,
                       location |-> slot, closed |-> NIL_VAL, next |-> NULL])

newBoundMethod(m, receiver, method) ==
    allocateObject(m, [type |-> "OBJ_BOUND_METHOD", isMarked |-> FALSE,
                       receiver |-> receiver, method |-> method])

allocateString(m, chars, hash) ==
    Then(allocateObject(m, [type |-> "OBJ_STRING", isMarked |-> FALSE,
                            chars |-> chars, hash |-> hash]), LAMBDA m1 :
    Then(push(m1, OBJ_VAL(m1.ret)), LAMBDA m2 :
    Then(tableSet(m2, <<"strings", 0>>, m1.ret, NIL_VAL), LAMBDA m3 :
    [pop(m3) EXCEPT !.ret = m1.ret])))

\* tableFindString(&vm.strings, chars, length, hash): m.ret is the interned
\* string or NULL
findInterned(m, chars, hash) ==
    LET f == tableFindString(m.heap, m.strings, chars, hash)
    IN  [m EXCEPT !.heap = f.heap, !.ret = f.ret]

\* chars was allocated by the caller
takeString(m, chars) ==
    LET hash == hashString(chars) IN
    Then(findInterned(m, chars, hash), LAMBDA m1 :
      IF m1.ret # NULL
      THEN [FREE_ARRAY(m1, SizeOf.char, Len(chars) + 1) EXCEPT !.ret = m1.ret]
      ELSE allocateString(m1, chars, hash))

copyString(m, chars) ==
    LET hash == hashString(chars) IN
    Then(findInterned(m, chars, hash), LAMBDA m1 :
      IF m1.ret # NULL THEN m1
      ELSE Then(ALLOCATE(m1, SizeOf.char, Len(chars) + 1),
                LAMBDA m2 : allocateString(m2, chars, hash)))

(***************************************************************************)
(* chunk.h: the opcodes, in the order of the enum.                         *)
(***************************************************************************)
OP_CONSTANT      == 0
OP_NIL           == 1
OP_TRUE          == 2
OP_FALSE         == 3
OP_POP           == 4
OP_GET_LOCAL     == 5
OP_SET_LOCAL     == 6
OP_GET_GLOBAL    == 7
OP_DEFINE_GLOBAL == 8
OP_SET_GLOBAL    == 9
OP_GET_UPVALUE   == 10
OP_SET_UPVALUE   == 11
OP_GET_PROPERTY  == 12
OP_SET_PROPERTY  == 13
OP_GET_SUPER     == 14
OP_EQUAL         == 15
OP_GREATER       == 16
OP_LESS          == 17
OP_ADD           == 18
OP_SUBTRACT      == 19
OP_MULTIPLY      == 20
OP_DIVIDE        == 21
OP_NOT           == 22
OP_NEGATE        == 23
OP_PRINT         == 24
OP_JUMP          == 25
OP_JUMP_IF_FALSE == 26
OP_LOOP          == 27
OP_CALL          == 28
OP_INVOKE        == 29
OP_SUPER_INVOKE  == 30
OP_CLOSURE       == 31
OP_CLOSE_UPVALUE == 32
OP_RETURN        == 33
OP_CLASS         == 34
OP_INHERIT       == 35
OP_METHOD        == 36

(***************************************************************************)
(* chunk.c.  code[i] of the C array is code[i + 1] here; count is          *)
(* Len(code) and constants.count is Len(constants).                        *)
(***************************************************************************)
\* A writeChunk that stores the line of a byte only where it differs from
\* the line of the byte before.
writeChunkRuns(m, function, byte, line) ==
    LET lines == m.heap[function].lines IN
    [m EXCEPT !.heap[function].code  = Append(@, byte),
              !.heap[function].lines =
                  IF lines # << >> /\ lines[Len(lines)] = line THEN @
                  ELSE Append(@, line)]

writeChunk(m, function, byte, line) ==
    Then(IF m.heap[function].capacity < Len(m.heap[function].code) + 1
         THEN LET oldCapacity == m.heap[function].capacity
                  capacity    == GROW_CAPACITY(oldCapacity)
              IN  Then(GROW_ARRAY([m EXCEPT !.heap[function].capacity = capacity],
                                  SizeOf.uint8_t, oldCapacity, capacity),   \* code
                       LAMBDA s :
                  GROW_ARRAY(s, SizeOf.int, oldCapacity, capacity))         \* lines
         ELSE m,
         LAMBDA m1 : [m1 EXCEPT !.heap[function].code  = Append(@, byte),
                                !.heap[function].lines = Append(@, line)])

writeValueArray(m, function, value) ==
    Then(IF m.heap[function].constCapacity < Len(m.heap[function].constants) + 1
         THEN GROW_ARRAY(
                [m EXCEPT !.heap[function].constCapacity = GROW_CAPACITY(@)],
                SizeOf.Value, m.heap[function].constCapacity,
                GROW_CAPACITY(m.heap[function].constCapacity))
         ELSE m,
         LAMBDA m1 : [m1 EXCEPT !.heap[function].constants = Append(@, value)])

\* addConstant without the push and pop around writeValueArray
addConstantUnrooted(m, function, value) ==
    Then(writeValueArray(m, function, value), LAMBDA m2 :
    [m2 EXCEPT !.ret = Len(m2.heap[function].constants) - 1])

addConstant(m, function, value) ==
    Then(push(m, value), LAMBDA m1 :
    Then(writeValueArray(m1, function, value), LAMBDA m2 :
    Then(pop(m2), LAMBDA m3 :
    [m3 EXCEPT !.ret = Len(m3.heap[function].constants) - 1])))

(***************************************************************************)
(* scanner.c.  The source is a sequence of character codes; the C string   *)
(* ends with a 0 that is not part of the sequence.  scanner.start and      *)
(* scanner.current are offsets into it.  A token carries its lexeme as     *)
(* start and length.                                                       *)
(***************************************************************************)
Ascii == [nul |-> 0, tab |-> 9, newline |-> 10, return |-> 13, space |-> 32,
          bang |-> 33, quote |-> 34, leftParen |-> 40, rightParen |-> 41,
          star |-> 42, plus |-> 43, comma |-> 44, minus |-> 45, dot |-> 46,
          slash |-> 47, zero |-> 48, nine |-> 57, semicolon |-> 59,
          less |-> 60, equal |-> 61, greater |-> 62, A |-> 65, Z |-> 90,
          underscore |-> 95, a |-> 97, z |-> 122, leftBrace |-> 123,
          rightBrace |-> 125]

\* "and", "class", ... : the spelling of each reserved word of the language
ReservedWords ==
      [TOKEN_AND |-> <<97, 110, 100>>,
       TOKEN_CLASS |-> <<99, 108, 97, 115, 115>>,
       TOKEN_ELSE |-> <<101, 108, 115, 101>>,
       TOKEN_EGO |-> <<101, 103, 111>>,
       TOKEN_FALSE |-> <<102, 97, 108, 115, 101>>,
       TOKEN_FOR |-> <<102, 111, 114>>,
       TOKEN_FUN |-> <<102, 117, 110>>,
       TOKEN_IF |-> <<105, 102>>,
       TOKEN_NIL |-> <<110, 105, 108>>,
       TOKEN_OR |-> <<111, 114>>,
       TOKEN_PRINT |-> <<112, 114, 105, 110, 116>>,
       TOKEN_RETURN |-> <<114, 101, 116, 117, 114, 110>>,
       TOKEN_SUPER |-> <<115, 117, 112, 101, 114>>,
       TOKEN_TRUE |-> <<116, 114, 117, 101>>,
       TOKEN_VAR |-> <<118, 97, 114>>,
       TOKEN_WHILE |-> <<119, 104, 105, 108, 101>>]

charAt(source, i) == IF i < Len(source) THEN source[i + 1] ELSE Ascii.nul

initScanner(source) == [source |-> source, start |-> 0, current |-> 0, line |-> 1]

isDigit(c) == c >= Ascii.zero /\ c <= Ascii.nine

isAlpha(c) ==
    \/ c >= Ascii.a /\ c <= Ascii.z
    \/ c >= Ascii.A /\ c <= Ascii.Z
    \/ c = Ascii.underscore

isAtEnd(s) == charAt(s.source, s.current) = Ascii.nul

\* advance() of scanner.c; the character it returns is the one before
\* scanner.current
scannerAdvance(s) == [s EXCEPT !.current = @ + 1]

scannerPeek(s) == charAt(s.source, s.current)

peekNext(s) == IF isAtEnd(s) THEN Ascii.nul ELSE charAt(s.source, s.current + 1)

\* match() of scanner.c: the scanner after it, moved when expected was there
scannerMatch(s, expected) ==
    IF isAtEnd(s) \/ scannerPeek(s) # expected THEN s ELSE scannerAdvance(s)

makeToken(s, type) ==
    [type |-> type, start |-> s.start, length |-> s.current - s.start,
     line |-> s.line, message |-> ""]

errorToken(s, message) ==
    [type |-> "TOKEN_ERROR", start |-> 0, length |-> 0, line |-> s.line,
     message |-> message]

\* one turn of the loop of skipWhitespace; done is set when it returns
skipOne(s) ==
    LET c == scannerPeek(s) IN
    CASE c \in {Ascii.space, Ascii.return, Ascii.tab} -> scannerAdvance(s)
      [] c = Ascii.newline -> scannerAdvance([s EXCEPT !.line = @ + 1])
      [] c = Ascii.slash /\ peekNext(s) = Ascii.slash ->
            While(LAMBDA t : scannerPeek(t) # Ascii.newline /\ ~isAtEnd(t),
                  scannerAdvance, s, LoopBits)
      [] OTHER -> s

skipWhitespace(s) ==
    While(LAMBDA t : skipOne(t) # t, skipOne, s, LoopBits)

\* number() of scanner.c
scannerNumber(s) ==
    LET digits(t) == While(LAMBDA u : isDigit(scannerPeek(u)), scannerAdvance, t,
                           LoopBits)
        s1 == digits(s)
    IN  IF scannerPeek(s1) = Ascii.dot /\ isDigit(peekNext(s1))
        THEN digits(scannerAdvance(s1)) ELSE s1

\* memcmp(scanner.start + start, rest, length) == 0 is read only when the
\* lengths agree, so it stays inside the lexeme.
checkKeyword(s, start, length, rest, type) ==
    IF /\ s.current - s.start = start + length
       /\ SubSeq(s.source, s.start + start + 1, s.start + start + length) = rest
    THEN type ELSE "TOKEN_IDENTIFIER"

\* case 'f' of identifierType, up to its break
identifierTypeF(s) ==
    LET c1 == charAt(s.source, s.start + 1) IN
    IF s.current - s.start > 1
    THEN CASE c1 = 97  -> checkKeyword(s, 2, 3, <<108, 115, 101>>, "TOKEN_FALSE")
           [] c1 = 111 -> checkKeyword(s, 2, 1, <<114>>, "TOKEN_FOR")
           [] c1 = 117 -> checkKeyword(s, 2, 1, <<110>>, "TOKEN_FUN")
           [] OTHER    -> "TOKEN_IDENTIFIER"
    ELSE "TOKEN_IDENTIFIER"

\* case 'e' of identifierType: no break follows its inner switch, and
\* control that leaves it goes on into case 'f'
identifierTypeE(s) ==
    LET c1 == charAt(s.source, s.start + 1) IN
    IF s.current - s.start > 1
    THEN CASE c1 = 108 -> checkKeyword(s, 2, 2, <<115, 101>>, "TOKEN_ELSE")
           [] c1 = 103 -> checkKeyword(s, 2, 1, <<111>>, "TOKEN_EGO")
           [] OTHER    -> identifierTypeF(s)
    ELSE identifierTypeF(s)

identifierType(s) ==
    LET c0 == charAt(s.source, s.start) IN
    CASE c0 = 97  -> checkKeyword(s, 1, 2, <<110, 100>>, "TOKEN_AND")
      [] c0 = 99  -> checkKeyword(s, 1, 4, <<108, 97, 115, 115>>, "TOKEN_CLASS")
      [] c0 = 101 -> identifierTypeE(s)
      [] c0 = 102 -> identifierTypeF(s)
      [] c0 = 105 -> checkKeyword(s, 1, 1, <<102>>, "TOKEN_IF")
      [] c0 = 110 -> checkKeyword(s, 1, 2, <<105, 108>>, "TOKEN_NIL")
      [] c0 = 111 -> checkKeyword(s, 1, 1, <<114>>, "TOKEN_OR")
      [] c0 = 112 -> checkKeyword(s, 1, 4, <<114, 105, 110, 116>>, "TOKEN_PRINT")
      [] c0 = 114 -> checkKeyword(s, 1, 5, <<101, 116, 117, 114, 110>>, "TOKEN_RETURN")
      [] c0 = 115 -> checkKeyword(s, 1, 4, <<117, 112, 101, 114>>, "TOKEN_SUPER")
      [] c0 = 116 -> checkKeyword(s, 1, 3, <<114, 117, 101>>, "TOKEN_TRUE")
      [] c0 = 118 -> checkKeyword(s, 1, 2, <<97, 114>>, "TOKEN_VAR")
      [] c0 = 119 -> checkKeyword(s, 1, 4, <<104, 105, 108, 101>>, "TOKEN_WHILE")
      [] OTHER    -> "TOKEN_IDENTIFIER"

\* identifier(): the scanner after it; the token is makeToken(identifierType())
identifier(s) ==
    While(LAMBDA t : isAlpha(scannerPeek(t)) \/ isDigit(scannerPeek(t)),
          scannerAdvance, s, LoopBits)

\* string(): <<scanner, token>>
scannerString(s) ==
    LET s1 == While(LAMBDA t : scannerPeek(t) # Ascii.quote /\ ~isAtEnd(t),
                    LAMBDA t : scannerAdvance(
                        IF scannerPeek(t) = Ascii.newline
                        THEN [t EXCEPT !.line = @ + 1] ELSE t),
                    s, LoopBits)
    IN  IF isAtEnd(s1) THEN <<s1, errorToken(s1, "Unterminated string.")>>
        ELSE <<scannerAdvance(s1), makeToken(scannerAdvance(s1), "TOKEN_STRING")>>

\* the tokens of one character, and those that a '=' may follow
Punctuation ==
    (Ascii.leftParen :> "TOKEN_LEFT_PAREN") @@ (Ascii.rightParen :> "TOKEN_RIGHT_PAREN")
    @@ (Ascii.leftBrace :> "TOKEN_LEFT_BRACE") @@ (Ascii.rightBrace :> "TOKEN_RIGHT_BRACE")
    @@ (Ascii.semicolon :> "TOKEN_SEMICOLON") @@ (Ascii.comma :> "TOKEN_COMMA")
    @@ (Ascii.dot :> "TOKEN_DOT") @@ (Ascii.minus :> "TOKEN_MINUS")
    @@ (Ascii.plus :> "TOKEN_PLUS") @@ (Ascii.slash :> "TOKEN_SLASH")
    @@ (Ascii.star :> "TOKEN_STAR")

Comparison ==
    (Ascii.bang :> <<"TOKEN_BANG_EQUAL", "TOKEN_BANG">>)
    @@ (Ascii.equal :> <<"TOKEN_EQUAL_EQUAL", "TOKEN_EQUAL">>)
    @@ (Ascii.less :> <<"TOKEN_LESS_EQUAL", "TOKEN_LESS">>)
    @@ (Ascii.greater :> <<"TOKEN_GREATER_EQUAL", "TOKEN_GREATER">>)

\* scanToken() of scanner.c: <<scanner, token>>
scannerScanToken(s) ==
    LET s0 == skipWhitespace(s)
        s1 == [s0 EXCEPT !.start = s0.current]
        s2 == scannerAdvance(s1)
        c  == charAt(s1.source, s1.current)
    IN
    CASE isAtEnd(s1) -> <<s1, makeToken(s1, "TOKEN_EOF")>>
      [] isAlpha(c)  -> <<identifier(s2), makeToken(identifier(s2),
                                                     identifierType(identifier(s2)))>>
      [] isDigit(c) /\ ~isAlpha(c) ->
            <<scannerNumber(s2), makeToken(scannerNumber(s2), "TOKEN_NUMBER")>>
      [] c \in DOMAIN Punctuation -> <<s2, makeToken(s2, Punctuation[c])>>
      [] c \in DOMAIN Comparison ->
            LET s3 == scannerMatch(s2, Ascii.equal) IN
            <<s3, makeToken(s3, Comparison[c][IF s3 # s2 THEN 1 ELSE 2])>>
      [] c = Ascii.quote -> scannerString(s2)
      [] OTHER -> <<s2, errorToken(s2, "Unexpected character.")>>

(***************************************************************************)
(* compiler.c.  The parser's calls are driven by a syntax tree: a node     *)
(* says which parse function consumes the tokens at that point.  A         *)
(* compile state c holds the machine (c.m), the chain of Compiler structs  *)
(* (c.comps, outermost first, current last), the chain of ClassCompiler    *)
(* structs (c.classes) and the parser's flags.                             *)
(***************************************************************************)
current(c) == c.comps[Len(c.comps)]
currentFunction(c) == current(c).function

\* A token, and the token the scanner gives at the end of the text.
Tok(type)     == [type |-> type, value |-> 0]
NumTok(value) == [type |-> "TOKEN_NUMBER", value |-> value]
TOKEN_EOF     == Tok("TOKEN_EOF")

\* One entry of c.events, the history of the parser's error handling: a
\* report ("reported"), an error met in panic mode ("suppressed"), the
\* start of synchronize ("synchronize"), where it clears parser.panicMode,
\* or its return ("stopped"), with the token before the first one it
\* looked at, the tokens it skipped and the tokens around the place where
\* it stopped.
Event(e, message, before, skipped, previous, currentType) ==
    [e |-> e, message |-> message, before |-> before, skipped |-> skipped,
     previous |-> previous, current |-> currentType]

\* An errorAt that reports in panic mode too.
errorAlways(c, message) ==
    [c EXCEPT !.panicMode = TRUE, !.hadError = TRUE,
              !.messages = Append(@, message),
              !.events = Append(@, Event("reported", message, "", << >>, "", ""))]

\* errorAt
error(c, message) ==
    IF c.panicMode
    THEN [c EXCEPT !.events =
                      Append(@, Event("suppressed", message, "", << >>, "", ""))]
    ELSE [c EXCEPT !.panicMode = TRUE, !.hadError = TRUE,
                   !.messages = Append(@, message),
                   !.events =
                      Append(@, Event("reported", message, "", << >>, "", ""))]

\* c.tokens is the text from parser.current on, where a line gives its
\* text as tokens: parser.current is its head, and TOKEN_EOF where nothing
\* is left.
currentToken(c) == IF c.tokens = << >> THEN TOKEN_EOF ELSE Head(c.tokens)

check(c, type) == currentToken(c).type = type

\* The loop of advance: the error tokens the scanner gives (for a
\* character that starts no token) are reported and passed.
scanToken(c) ==
    While(LAMBDA s : check(s, "TOKEN_ERROR"),
          LAMBDA s : [error(s, "Unexpected character.") EXCEPT !.tokens = Tail(@)],
          c, LoopBits)

advance(c) ==
    scanToken([c EXCEPT !.previous = currentToken(c),
                        !.tokens = IF @ = << >> THEN @ ELSE Tail(@)])

\* match; the caller tests check(c, type) for its result.
match(c, type) == IF ~check(c, type) THEN c ELSE advance(c)

consume(c, type, message) ==
    IF check(c, type) THEN advance(c) ELSE error(c, message)

\* c with the machine that a call on c.m has left
withMachine(c, m) == [c EXCEPT !.m = m, !.ret = m.ret]

emitByte(c, byte) ==
    [c EXCEPT !.m = writeChunk(c.m, currentFunction(c), byte, c.line)]

emitBytes(c, byte1, byte2) ==
    Then(emitByte(c, byte1), LAMBDA c1 : emitByte(c1, byte2))

emitReturn(c) ==
    Then(IF current(c).type = "TYPE_INITIALIZER"
         THEN emitBytes(c, OP_GET_LOCAL, 0)
         ELSE emitByte(c, OP_NIL),
         LAMBDA c1 : emitByte(c1, OP_RETURN))

makeConstant(c, value) ==
    Then(withMachine(c, addConstant(c.m, currentFunction(c), value)), LAMBDA c1 :
      IF c1.ret > UINT8_MAX
      THEN [error(c1, "Too many constants in one chunk.") EXCEPT !.ret = 0]
      ELSE c1)

emitConstant(c, value) ==
    Then(makeConstant(c, value), LAMBDA c1 : emitBytes(c1, OP_CONSTANT, c1.ret))

\* The name given to local slot zero.
slotZeroName(type) == IF type # "TYPE_FUNCTION" THEN <<101, 103, 111>> ELSE << >>

\* current->function->name = copyString(parser.previous...)
nameFunction(m, fn, name) ==
    Then(copyString(m, name), LAMBDA s : [s EXCEPT !.heap[fn].name = s.ret])

\* name is parser.previous, read only when type is not TYPE_SCRIPT
initCompiler(c, type, name) ==
    Then(newFunction(c.m), LAMBDA m1 :
    Then([m1 EXCEPT !.compilerRoots = <<m1.ret>> \o @],     \* current = compiler
         LAMBDA m2 :
    Then(IF type # "TYPE_SCRIPT" THEN nameFunction(m2, m1.ret, name) ELSE m2,
         LAMBDA m3 :
    [c EXCEPT !.m = m3,
              !.comps = Append(@, [function |-> m1.ret, type |-> type,
                                   locals |-> << [name |-> slotZeroName(type),
                                                  depth |-> 0,
                                                  isCaptured |-> FALSE] >>,
                                   upvalues |-> << >>,
                                   scopeDepth |-> 0,
                                   opened |-> << >>])])))

\* c.ret is the Compiler struct that was current
endCompiler(c) ==
    Then(emitReturn(c), LAMBDA c1 :
    [c1 EXCEPT !.ret = current(c1),
               !.comps = SubSeq(@, 1, Len(@) - 1),
               !.m = [c1.m EXCEPT !.compilerRoots = Tail(@)]])

\* The compiler's account of its own work, kept in the function it
\* compiles: heights holds <<offset, localCount>> for the places of the code
\* where a declaration starts or ends, scopes holds for every scope that was
\* left the locals declared in it and the code that leaving it emitted.
\* opened holds, for each open scope, localCount as it was at beginScope.
codeCount(c) == Len(c.m.heap[currentFunction(c)].code)

atBoundary(c) ==
    [c EXCEPT !.m = [c.m EXCEPT !.heap[currentFunction(c)].heights =
                        @ \cup {<<codeCount(c), Len(current(c).locals)>>}]]

beginScope(c) == [c EXCEPT !.comps[Len(c.comps)].scopeDepth = @ + 1,
                           !.comps[Len(c.comps)].opened =
                               Append(@, Len(current(c).locals))]

\* does the loop of endScope go round once more
scopeHasLocal(c) ==
    /\ Len(current(c).locals) > 0
    /\ current(c).locals[Len(current(c).locals)].depth > current(c).scopeDepth

\* the body of the loop of endScope
endScopePop(c) ==
    Then(IF current(c).locals[Len(current(c).locals)].isCaptured
         THEN emitByte(c, OP_CLOSE_UPVALUE)
         ELSE emitByte(c, OP_POP),
         LAMBDA c1 : [c1 EXCEPT !.comps[Len(c1.comps)].locals =
                                    SubSeq(@, 1, Len(@) - 1)])

RECURSIVE endScopePops(_)
endScopePops(c) ==
    IF scopeHasLocal(c)
    THEN Then(endScopePop(c), LAMBDA c1 : endScopePops(c1))
    ELSE c

\* An endScope that forgets the locals and emits nothing for them.
endScopeSilent(c) ==
    LET depth == current(c).scopeDepth - 1
        kept  == {i \in 1 .. Len(current(c).locals) :
                     \A j \in 1 .. i : current(c).locals[j].depth <= depth}
    IN  [c EXCEPT !.comps[Len(c.comps)].scopeDepth = depth,
                  !.comps[Len(c.comps)].locals = SubSeq(@, 1, Cardinality(kept)),
                  !.comps[Len(c.comps)].opened = SubSeq(@, 1, Len(@) - 1),
                  !.m = [c.m EXCEPT !.heap[currentFunction(c)].scopes =
                            @ \cup {[declared |->
                                        [i \in 1 .. Len(current(c).locals)
                                                  - current(c).opened[Len(current(c).opened)] |->
                                          current(c).locals[i + current(c).opened[Len(current(c).opened)]]
                                             .isCaptured],
                                     from |-> codeCount(c),
                                     emitted |-> << >>,
                                     left |-> Cardinality(kept),
                                     opened |-> current(c).opened[Len(current(c).opened)]]}]]

endScope(c) ==
    LET first    == current(c).opened[Len(current(c).opened)]
        declared == [i \in 1 .. Len(current(c).locals) - first |->
                        current(c).locals[i + first].isCaptured]
    IN  Then(endScopePops([c EXCEPT !.comps[Len(c.comps)].scopeDepth = @ - 1]),
             LAMBDA c1 :
        [c1 EXCEPT !.comps[Len(c1.comps)].opened = SubSeq(@, 1, Len(@) - 1),
                   !.m = [c1.m EXCEPT !.heap[currentFunction(c1)].scopes =
                             @ \cup {[declared |-> declared,
                                      from |-> codeCount(c),
                                      emitted |-> SubSeq(c1.m.heap[currentFunction(c1)].code,
                                                         codeCount(c) + 1, codeCount(c1)),
                                      left |-> Len(current(c1).locals),
                                      opened |-> first]}]])

emitLoop(c, loopStart) ==
    Then(emitByte(c, OP_LOOP), LAMBDA c1 :
    LET offset == codeCount(c1) - loopStart + 2
    IN  Then(IF offset > UINT16_MAX THEN error(c1, "Loop body too large.") ELSE c1,
             LAMBDA c2 :
        Then(emitByte(c2, (offset \div 256) % 256), LAMBDA c3 :
        emitByte(c3, offset % 256))))

\* c.ret is the offset of the operand to patch
emitJump(c, instruction) ==
    Then(emitByte(c, instruction), LAMBDA c1 :
    Then(emitByte(c1, 255), LAMBDA c2 :
    Then(emitByte(c2, 255), LAMBDA c3 :
    [c3 EXCEPT !.ret = codeCount(c3) - 2])))

\* the chunk with the two bytes at offset set to jump, high byte first
patched(c, offset, jump) ==
    [c EXCEPT !.m = [c.m EXCEPT !.heap[currentFunction(c)].code =
                        [@ EXCEPT ![offset + 1] = (jump \div 256) % 256,
                                  ![offset + 2] = jump % 256]]]

\* A patchJump that counts from the operand, not from behind it.
patchJumpShort(c, offset) ==
    LET jump == codeCount(c) - offset
    IN  patched(IF jump > UINT16_MAX THEN error(c, "Too much code to jump over.")
                ELSE c,
                offset, jump)

patchJump(c, offset) ==
    LET jump == codeCount(c) - offset - 2
    IN  patched(IF jump > UINT16_MAX THEN error(c, "Too much code to jump over.")
                ELSE c,
                offset, jump)

identifierConstant(c, name) ==
    Then(copyString(c.m, name), LAMBDA m1 :
         makeConstant([c EXCEPT !.m = m1], OBJ_VAL(m1.ret)))

identifiersEqual(a, b) == Len(a) = Len(b) /\ a = b

\* The loop of resolveLocal from local i down: it stops at the first local
\* of the name.  c.ret is the slot or -1.
resolveLocalFrom(c, comp, name, i) ==
    LET named == {j \in 0 .. i :
                    identifiersEqual(name, c.comps[comp].locals[j + 1].name)}
    IN  IF named = {} THEN [c EXCEPT !.ret = -1]
        ELSE LET slot == CHOOSE j \in named : \A k \in named : k <= j IN
             [(IF c.comps[comp].locals[slot + 1].depth = -1
               THEN error(c, "Can't read local variable in its own initializer.")
               ELSE c) EXCEPT !.ret = slot]

resolveLocal(c, comp, name) ==
    resolveLocalFrom(c, comp, name, Len(c.comps[comp].locals) - 1)

addUpvalue(c, comp, index, isLocal) ==
    LET fn           == c.comps[comp].function
        upvalueCount == c.m.heap[fn].upvalueCount
        same         == {i \in 1 .. upvalueCount :
                            /\ c.comps[comp].upvalues[i].index = index
                            /\ c.comps[comp].upvalues[i].isLocal = isLocal}
    IN  IF same # {} THEN [c EXCEPT !.ret = Min(same) - 1]
        ELSE IF upvalueCount = UINT8_MAX + 1
        THEN [error(c, "Too many closure variables in function.") EXCEPT !.ret = 0]
        ELSE [c EXCEPT !.comps[comp].upvalues =
                          Append(@, [index |-> index, isLocal |-> isLocal]),
                       !.m = [c.m EXCEPT !.heap[fn].upvalueCount = @ + 1],
                       !.ret = upvalueCount]

RECURSIVE resolveUpvalue(_, _, _)
resolveUpvalue(c, comp, name) ==
    IF comp = 1 THEN [c EXCEPT !.ret = -1]
    ELSE Then(resolveLocal(c, comp - 1, name), LAMBDA c1 :
           IF c1.ret # -1
           THEN addUpvalue([c1 EXCEPT !.comps[comp - 1].locals[c1.ret + 1].isCaptured
                                         = TRUE],
                           comp, c1.ret, TRUE)
           ELSE Then(resolveUpvalue(c1, comp - 1, name), LAMBDA c2 :
                  IF c2.ret # -1 THEN addUpvalue(c2, comp, c2.ret, FALSE)
                  ELSE [c2 EXCEPT !.ret = -1]))

addLocal(c, name) ==
    IF Len(current(c).locals) = UINT8_MAX + 1
    THEN error(c, "Too many local variables in function.")
    ELSE [c EXCEPT !.comps[Len(c.comps)].locals =
                      Append(@, [name |-> name, depth |-> -1, isCaptured |-> FALSE])]

\* Does the loop of declareVariable report a clash, scanning from local i
\* down: it stops at the first local of an enclosing scope.
declaredInScope(cc, name, i) ==
    LET enclosing == {j \in 0 .. i : /\ cc.locals[j + 1].depth # -1
                                      /\ cc.locals[j + 1].depth < cc.scopeDepth}
    IN  \E j \in 0 .. i :
           /\ \A k \in enclosing : k < j
           /\ identifiersEqual(name, cc.locals[j + 1].name)

declareVariable(c, name) ==
    IF current(c).scopeDepth = 0 THEN c
    ELSE addLocal(IF declaredInScope(current(c), name, Len(current(c).locals) - 1)
                  THEN error(c, "Already a variable with this name in this scope.")
                  ELSE c,
                  name)

parseVariable(c, name) ==
    Then(declareVariable(c, name), LAMBDA c1 :
      IF current(c1).scopeDepth > 0 THEN [c1 EXCEPT !.ret = 0]
      ELSE identifierConstant(c1, name))

markInitialized(c) ==
    IF current(c).scopeDepth = 0 THEN c
    ELSE [c EXCEPT !.comps[Len(c.comps)].locals[Len(current(c).locals)].depth =
                      current(c).scopeDepth]

defineVariable(c, global) ==
    IF current(c).scopeDepth > 0 THEN markInitialized(c)
    ELSE emitBytes(c, OP_DEFINE_GLOBAL, global)

\* c.ret is <<getOp, setOp, arg>>
resolveNamed(c, name) ==
    Then(resolveLocal(c, Len(c.comps), name), LAMBDA c1 :
      IF c1.ret # -1 THEN [c1 EXCEPT !.ret = <<OP_GET_LOCAL, OP_SET_LOCAL, c1.ret>>]
      ELSE Then(resolveUpvalue(c1, Len(c.comps), name), LAMBDA c2 :
        IF c2.ret # -1
        THEN [c2 EXCEPT !.ret = <<OP_GET_UPVALUE, OP_SET_UPVALUE, c2.ret>>]
        ELSE Then(identifierConstant(c2, name), LAMBDA c3 :
               [c3 EXCEPT !.ret = <<OP_GET_GLOBAL, OP_SET_GLOBAL, c3.ret>>])))

\* namedVariable when no '=' follows (or canAssign is false)
namedVariable(c, name) ==
    Then(resolveNamed(c, name), LAMBDA c1 : emitBytes(c1, c1.ret[1], c1.ret[3]))

S_ego   == <<101, 103, 111>>
S_super == <<115, 117, 112, 101, 114>>
S_init  == <<105, 110, 105, 116>>
S_clock == <<99, 108, 111, 99, 107>>

RECURSIVE expression(_, _), argumentListFrom(_, _, _), declaration(_, _),
          statement(_, _),
          function(_, _, _, _, _), parametersFrom(_, _, _),
          methodsFrom(_, _, _), emitUpvaluePairs(_, _, _)

\* the arguments of argumentList from the i-th on, left to right
argumentListFrom(c, args, i) ==
    Loop(LAMBDA s, j :
            Then(expression(s, args[j]), LAMBDA c1 :
              IF j - 1 = 255
              THEN error(c1, "Can't have more than 255 arguments.")
              ELSE c1),
         c, i, Len(args))

\* The opcodes binary() emits for an operator token ('/' is left out: its
\* result is not an integer).
binaryOps(operator) ==
    CASE operator = "!=" -> <<OP_EQUAL, OP_NOT>>
      [] operator = "==" -> <<OP_EQUAL>>
      [] operator = ">"  -> <<OP_GREATER>>
      [] operator = ">=" -> <<OP_LESS, OP_NOT>>
      [] operator = "<"  -> <<OP_LESS>>
      [] operator = "<=" -> <<OP_GREATER, OP_NOT>>
      [] operator = "+"  -> <<OP_ADD>>
      [] operator = "-"  -> <<OP_SUBTRACT>>
      [] operator = "*"  -> <<OP_MULTIPLY>>

\* the checks super_ makes before it reads the method name
superAllowed(c) ==
    IF c.classes = << >>
    THEN error(c, "Can't use 'super' outside of a class.")
    ELSE IF ~c.classes[Len(c.classes)].hasSuperclass
    THEN error(c, "Can't use 'super' in a class with no superclass.")
    ELSE c

\* super_
superExpr(c, e) ==
    Then(identifierConstant(superAllowed(c), e.name), LAMBDA c2 :
    Then(namedVariable(c2, S_ego), LAMBDA c3 :
      IF e.isCall
      THEN Then(argumentListFrom(c3, e.args, 1), LAMBDA c4 :
           Then(namedVariable(c4, S_super), LAMBDA c5 :
           Then(emitBytes(c5, OP_SUPER_INVOKE, c2.ret), LAMBDA c6 :
           emitByte(c6, Len(e.args)))))
      ELSE Then(namedVariable(c3, S_super), LAMBDA c4 :
           emitBytes(c4, OP_GET_SUPER, c2.ret))))

\* dot, after the left operand has been compiled
dot(c, e) ==
    Then(identifierConstant(c, e.name), LAMBDA c1 :
      IF e.k = "set"
      THEN Then(expression(c1, e.value), LAMBDA c2 :
           emitBytes(c2, OP_SET_PROPERTY, c1.ret))
      ELSE IF e.k = "invoke"
      THEN Then(argumentListFrom(c1, e.args, 1), LAMBDA c2 :
           Then(emitBytes(c2, OP_INVOKE, c1.ret), LAMBDA c3 :
           emitByte(c3, Len(e.args))))
      ELSE emitBytes(c1, OP_GET_PROPERTY, c1.ret))

\* string
stringExpr(c, e) ==
    Then(copyString(c.m, e.chars), LAMBDA m1 :
         emitConstant([c EXCEPT !.m = m1], OBJ_VAL(m1.ret)))

\* namedVariable when '=' follows and canAssign is true
assignment(c, e) ==
    Then(resolveNamed(c, e.name), LAMBDA c1 :
    Then(expression(c1, e.value), LAMBDA c2 :
    emitBytes(c2, c1.ret[2], c1.ret[3])))

\* binary, with the left operand parsed in front of it
binary(c, e) ==
    Then(expression(c, e.left), LAMBDA c1 :
    Then(expression(c1, e.right), LAMBDA c2 :
      IF Len(binaryOps(e.operator)) = 2
      THEN emitBytes(c2, binaryOps(e.operator)[1], binaryOps(e.operator)[2])
      ELSE emitByte(c2, binaryOps(e.operator)[1])))

\* call, with the callee parsed in front of it
callExpr(c, e) ==
    Then(expression(c, e.callee), LAMBDA c1 :
    Then(argumentListFrom(c1, e.args, 1), LAMBDA c2 :
    emitBytes(c2, OP_CALL, Len(e.args))))

expression(c, e) ==
    CASE e.k = "number" -> emitConstant(c, NUMBER_VAL(e.value))
      [] e.k = "string" -> stringExpr(c, e)
      [] e.k = "literal" ->
            emitByte(c, CASE e.token = "false" -> OP_FALSE
                          [] e.token = "nil"   -> OP_NIL
                          [] e.token = "true"  -> OP_TRUE)
      [] e.k = "variable" -> namedVariable(c, e.name)
      [] e.k = "assign" -> assignment(c, e)
      [] e.k = "binary" -> binary(c, e)
      [] e.k = "call" -> callExpr(c, e)
      [] e.k \in {"get", "set", "invoke"} ->
            Then(expression(c, e.object), LAMBDA c1 : dot(c1, e))
      [] e.k = "ego" ->
            IF c.classes = << >>
            THEN error(c, "Can't use 'this' outside of a class.")
            ELSE namedVariable(c, S_ego)
      [] e.k = "super" -> superExpr(c, e)

\* The tokens at which synchronize stops.
StatementStarts ==
    {"TOKEN_CLASS", "TOKEN_FUN", "TOKEN_VAR", "TOKEN_FOR", "TOKEN_IF",
     "TOKEN_WHILE", "TOKEN_PRINT", "TOKEN_RETURN"}

\* The loop of synchronize from c, with the entries of c.events for its
\* start and its return.  The tokens skipped are those the parser saw, the
\* error tokens that advance passed not among them.
skipTokens(c) ==
    LET c1 == [c EXCEPT !.events =
                 Append(@, Event("synchronize", "", c.previous.type, << >>, "", ""))]
        c2 == While(LAMBDA s : /\ ~check(s, "TOKEN_EOF")
                               /\ s.previous.type # "TOKEN_SEMICOLON"
                               /\ currentToken(s).type \notin StatementStarts,
                    advance, c1, LoopBits)
        IsToken(token) == token.type # "TOKEN_ERROR"
    IN  [c2 EXCEPT !.events =
           Append(@, Event("stopped", "", c.previous.type,
                           SelectSeq(SubSeq(c.tokens, 1, Len(c.tokens) - Len(c2.tokens)),
                                     IsToken),
                           c2.previous.type, currentToken(c2).type))]

\* A synchronize that forgets the error along with the panic.
synchronizeForgetting(c) ==
    skipTokens([c EXCEPT !.panicMode = FALSE, !.hadError = FALSE])

\* After a declaration compiled from a tree the tokens that follow are
\* not known: synchronize is followed where it returns at once, after a
\* semicolon.
synchronize(c) ==
    LET c1 == [c EXCEPT !.panicMode = FALSE]
    IN  IF c.fromTree /\ c.previous.type # "TOKEN_SEMICOLON"
        THEN [c1 EXCEPT !.m.status = "bound"]
        ELSE skipTokens(c1)

\* block
block(c, decls) ==
    Loop(LAMBDA s, i : declaration(s, decls[i]), c, 1, Len(decls))

\* one turn of the parameter loop of function
parameter(c, name) ==
    Then([c EXCEPT !.m = [c.m EXCEPT !.heap[currentFunction(c)].arity = @ + 1]],
         LAMBDA c1 :
    Then(parseVariable(IF c1.m.heap[currentFunction(c1)].arity > 255
                       THEN error(c1, "Can't have more than 255 parameters.")
                       ELSE c1,
                       name),
         LAMBDA c2 :
    defineVariable(c2, c2.ret)))

parametersFrom(c, params, i) ==
    Loop(LAMBDA s, j : parameter(s, params[j]), c, i, Len(params))

emitUpvaluePairs(c, upvalues, i) ==
    IF i > Len(upvalues) THEN c
    ELSE Then(emitBytes(c, IF upvalues[i].isLocal THEN 1 ELSE 0, upvalues[i].index),
              LAMBDA c1 : emitUpvaluePairs(c1, upvalues, i + 1))

function(c, type, name, params, body) ==
    Then(initCompiler(c, type, name), LAMBDA c1 :
    Then(parametersFrom(beginScope(c1), params, 1), LAMBDA c2 :
    Then(block(c2, body), LAMBDA c3 :
    Then(endCompiler(c3), LAMBDA c4 :
    Then(makeConstant(c4, OBJ_VAL(c4.ret.function)), LAMBDA c5 :
    Then(emitBytes(c5, OP_CLOSURE, c5.ret), LAMBDA c6 :
    emitUpvaluePairs(c6, c4.ret.upvalues, 1)))))))

\* the FunctionType method() picks
methodType(name) ==
    IF Len(name) = 4 /\ name = S_init THEN "TYPE_INITIALIZER" ELSE "TYPE_METHOD"

method(c, meth) ==
    Then(identifierConstant(c, meth.name), LAMBDA c1 :
    Then(function(c1, methodType(meth.name), meth.name, meth.params, meth.body),
         LAMBDA c2 :
    emitBytes(c2, OP_METHOD, c1.ret)))

methodsFrom(c, methods, i) ==
    IF i > Len(methods) THEN c
    ELSE Then(method(c, methods[i]), LAMBDA c1 : methodsFrom(c1, methods, i + 1))

\* the superclass clause of classDeclaration
superclassClause(c, d) ==
    Then(namedVariable(c, d.superclass), LAMBDA s1 :
    Then(defineVariable(
           addLocal(beginScope(IF identifiersEqual(d.name, d.superclass)
                               THEN error(s1, "A class can't inherit from itself.")
                               ELSE s1),
                    S_super),
           0),
         LAMBDA s4 :
    Then(namedVariable(s4, d.name), LAMBDA s5 :
    Then(emitByte(s5, OP_INHERIT), LAMBDA s6 :
    [s6 EXCEPT !.classes[Len(s6.classes)].hasSuperclass = TRUE]))))

classDeclaration(c, d) ==
    Then(identifierConstant(c, d.name), LAMBDA c1 :
    Then(emitBytes(declareVariable(c1, d.name), OP_CLASS, c1.ret), LAMBDA c3 :
    Then(defineVariable(c3, c1.ret), LAMBDA c4 :
    Then(IF d.hasSuperclass
         THEN superclassClause(
                [c4 EXCEPT !.classes = Append(@, [name |-> d.name,
                                                  hasSuperclass |-> FALSE])], d)
         ELSE [c4 EXCEPT !.classes = Append(@, [name |-> d.name,
                                                hasSuperclass |-> FALSE])],
         LAMBDA c6 :
    Then(namedVariable(c6, d.name), LAMBDA c7 :
    Then(methodsFrom(c7, d.methods, 1), LAMBDA c8 :
    Then(emitByte(c8, OP_POP), LAMBDA c9 :
    Then(IF c9.classes[Len(c9.classes)].hasSuperclass THEN endScope(c9) ELSE c9,
         LAMBDA c10 :
    [c10 EXCEPT !.classes = SubSeq(@, 1, Len(@) - 1)]))))))))

funDeclaration(c, d) ==
    Then(parseVariable(c, d.name), LAMBDA c1 :
    Then(function(markInitialized(c1), "TYPE_FUNCTION", d.name, d.params, d.body),
         LAMBDA c3 :
    defineVariable(c3, c1.ret)))

varDeclaration(c, d) ==
    Then(parseVariable(c, d.name), LAMBDA c1 :
    Then(IF d.hasInitializer THEN clox("expression", c1, d.initializer)
         ELSE emitByte(c1, OP_NIL),
         LAMBDA c2 :
    defineVariable(c2, c1.ret)))

\* An expression statement that leaves its value on the stack.
expressionUnpopped(c, d) == expression(c, d.expression)

expressionStatement(c, d) ==
    Then(clox("expression", c, d.expression), LAMBDA c1 : emitByte(c1, OP_POP))

printStatement(c, d) ==
    Then(clox("expression", c, d.expression), LAMBDA c1 : emitByte(c1, OP_PRINT))

\* A return statement that is compiled wherever it stands.
returnUnchecked(c, d) ==
    IF ~d.hasValue THEN emitReturn(c)
    ELSE Then(clox("expression", c, d.value), LAMBDA c2 : emitByte(c2, OP_RETURN))

returnStatement(c, d) ==
    Then(IF current(c).type = "TYPE_SCRIPT"
         THEN error(c, "Can't return from top-level code.") ELSE c,
         LAMBDA c1 :
      IF ~d.hasValue THEN emitReturn(c1)
      ELSE Then(clox("expression",
                     IF current(c1).type = "TYPE_INITIALIZER"
                     THEN error(c1, "Can't return a value from an initializer.")
                     ELSE c1,
                     d.value),
                LAMBDA c2 : emitByte(c2, OP_RETURN)))

\* The clauses of the statement are d.init (a var declaration, an
\* expression statement or none), d.cond and d.incr (an expression or
\* none) and the statement d.body.  The function keeps in loops where the
\* parts of the statement start in its code (-1: no such part) and
\* localCount in front of the statement.
forStatement(c, d) ==
    LET c0 == beginScope(c)
    IN  Then(CASE d.init.k = "none" -> c0
               [] d.init.k = "var"  -> varDeclaration(c0, d.init)
               [] OTHER             -> expressionStatement(c0, d.init),
             LAMBDA c1 :
        LET loopStart == codeCount(c1)
        IN  Then(IF d.cond.k # "none"
                 THEN Then(clox("expression", c1, d.cond), LAMBDA s1 :
                      Then(emitJump(s1, OP_JUMP_IF_FALSE), LAMBDA s2 :
                      [emitByte(s2, OP_POP) EXCEPT !.ret = s2.ret]))
                 ELSE [c1 EXCEPT !.ret = -1],
                 LAMBDA c2 :
            LET exitJump == c2.ret
            IN  Then(IF d.incr.k # "none"
                     THEN Then(emitJump(c2, OP_JUMP), LAMBDA s1 :
                          LET bodyJump == s1.ret
                              incrementStart == codeCount(s1)
                          IN  Then(clox("expression", s1, d.incr), LAMBDA s2 :
                              Then(emitByte(s2, OP_POP), LAMBDA s3 :
                              Then(emitLoop(s3, loopStart), LAMBDA s4 :
                              [patchJump(s4, bodyJump) EXCEPT !.ret = incrementStart]))))
                     ELSE [c2 EXCEPT !.ret = loopStart],
                     LAMBDA c3 :
                LET loopStart2 == c3.ret
                IN  Then(statement(c3, d.body), LAMBDA c4 :
                    Then(emitLoop(c4, loopStart2), LAMBDA c5 :
                    Then(IF exitJump # -1
                         THEN Then(patchJump(c5, exitJump), LAMBDA s1 :
                                   emitByte(s1, OP_POP))
                         ELSE c5,
                         LAMBDA c6 :
                    Then(endScope(c6), LAMBDA c7 :
                    [c7 EXCEPT !.m = [c7.m EXCEPT !.heap[currentFunction(c7)].loops =
                        @ \cup {[init  |-> codeCount(c),
                                 cond  |-> loopStart,
                                 test  |-> IF exitJump = -1 THEN -1 ELSE exitJump - 1,
                                 incr  |-> IF d.incr.k = "none" THEN -1 ELSE loopStart2,
                                 body  |-> codeCount(c3),
                                 back  |-> codeCount(c4),
                                 exit  |-> IF exitJump = -1 THEN -1 ELSE codeCount(c5),
                                 end   |-> codeCount(c7),
                                 count |-> Len(current(c).locals)]}]])))))))

statement(c, d) ==
    CASE d.k = "print"  -> printStatement(c, d)
      [] d.k = "for"    -> forStatement(c, d)
      [] d.k = "return" -> returnStatement(c, d)
      [] d.k = "block"  ->
            Then(block(beginScope(c), d.body), LAMBDA c1 : endScope(c1))
      [] OTHER          -> expressionStatement(c, d)

\* The last token of a declaration: ';' or '}'.
RECURSIVE lastToken(_)
lastToken(d) ==
    IF d.k = "for" THEN lastToken(d.body)
    ELSE Tok(IF d.k \in {"var", "print", "return", "expressionStatement"}
             THEN "TOKEN_SEMICOLON" ELSE "TOKEN_RIGHT_BRACE")

declaration(c, d) ==
    Then(CASE d.k = "class" -> classDeclaration(atBoundary(c), d)
           [] d.k = "fun"   -> funDeclaration(atBoundary(c), d)
           [] d.k = "var"   -> varDeclaration(atBoundary(c), d)
           [] OTHER         -> statement(atBoundary(c), d),
         LAMBDA c1 : IF c1.panicMode
                     THEN synchronize([c1 EXCEPT !.previous = lastToken(d)])
                     ELSE atBoundary(c1))

(***************************************************************************)
(* The parser on a text given as tokens.  The text is made of numbers,     *)
(* '+', ';', 'print' and characters that start no token; the parse         *)
(* functions are those of the source, with the rows of the rule table for  *)
(* these tokens.                                                           *)
(***************************************************************************)
TokenTypes ==
    {"TOKEN_NUMBER", "TOKEN_PLUS", "TOKEN_SEMICOLON", "TOKEN_PRINT", "TOKEN_ERROR"}

PREC_NONE       == 0
PREC_ASSIGNMENT == 1
PREC_TERM       == 6

getRule(type) ==
    CASE type = "TOKEN_NUMBER" ->
            [prefix |-> "number", infix |-> "NULL", precedence |-> PREC_NONE]
      [] type = "TOKEN_PLUS" ->
            [prefix |-> "NULL", infix |-> "binary", precedence |-> PREC_TERM]
      [] OTHER ->
            [prefix |-> "NULL", infix |-> "NULL", precedence |-> PREC_NONE]

number(c) == emitConstant(c, NUMBER_VAL(c.previous.value))

RECURSIVE parsePrecedence(_, _)
\* binary, for '+'
binaryInfix(c) ==
    LET rule == getRule(c.previous.type) IN
    Then(parsePrecedence(c, rule.precedence + 1), LAMBDA c1 :
      emitByte(c1, OP_ADD))

parsePrecedence(c, precedence) ==
    LET c1 == advance(c) IN
    IF getRule(c1.previous.type).prefix = "NULL"
    THEN error(c1, "Expect expression.")
    ELSE Then(number(c1), LAMBDA c2 :
         While(LAMBDA s : precedence <= getRule(currentToken(s).type).precedence,
               LAMBDA s : binaryInfix(advance(s)), c2, LoopBits))

tokenExpression(c) == parsePrecedence(c, PREC_ASSIGNMENT)

tokenExpressionStatement(c) ==
    Then(tokenExpression(c), LAMBDA c1 :
    Then(consume(c1, "TOKEN_SEMICOLON", "Expect ';' after expression."),
         LAMBDA c2 : emitByte(c2, OP_POP)))

tokenPrintStatement(c) ==
    Then(tokenExpression(c), LAMBDA c1 :
    Then(consume(c1, "TOKEN_SEMICOLON", "Expect ';' after value."),
         LAMBDA c2 : emitByte(c2, OP_PRINT)))

tokenStatement(c) ==
    IF check(c, "TOKEN_PRINT") THEN tokenPrintStatement(match(c, "TOKEN_PRINT"))
    ELSE tokenExpressionStatement(c)

tokenDeclaration(c) ==
    Then(tokenStatement(c), LAMBDA c1 :
      IF c1.panicMode THEN synchronize(c1) ELSE c1)

\* advance(); while (!match(TOKEN_EOF)) declaration();   on a text given as
\* tokens.  (Where declarations came before, the advance is the one that
\* passed their last token.)
tokenDeclarations(c, tokens) ==
    IF \E i \in 1..Len(tokens) : tokens[i].type \notin TokenTypes
    THEN [c EXCEPT !.m.status = "bound"]
    ELSE Then(While(LAMBDA s : ~check(s, "TOKEN_EOF"), tokenDeclaration,
                    scanToken([c EXCEPT !.tokens = tokens, !.fromTree = FALSE]),
                    LoopBits),
              LAMBDA c1 : [c1 EXCEPT !.fromTree = TRUE])

\* What compile starts from: parser.hadError and parser.panicMode are
\* false, no Compiler is current.  parser.previous is not read before a
\* token has been put there.
parserInit(m) ==
    [m |-> m, comps |-> << >>, classes |-> << >>, hadError |-> FALSE,
     panicMode |-> FALSE, messages |-> << >>, line |-> 1, ret |-> 0,
     previous |-> Tok("TOKEN_LEFT_PAREN"), tokens |-> << >>, fromTree |-> TRUE,
     events |-> << >>]

\* m.ret is the function, or NULL after an error.  The declarations of the
\* source text stand each on a line of its own; the last entry of the text
\* may give the rest of it as tokens.  m.parser is the global parser as
\* compile leaves it, with the history of its error handling, and m.stderr
\* the messages errorAt wrote.
compile(m, source) ==
    Then(initCompiler(parserInit(m), "TYPE_SCRIPT", << >>), LAMBDA c1 :
    Then(Loop(LAMBDA s, i :
                 CASE source[i].k # "raw" ->
                         declaration([s EXCEPT !.line = i], source[i])
                   [] /\ i = Len(source)
                      /\ i = 1 \/ Head(source[i].tokens).type # "TOKEN_ERROR" ->
                         tokenDeclarations([s EXCEPT !.line = i], source[i].tokens)
                   [] OTHER -> [s EXCEPT !.m.status = "bound"],
              c1, 1, Len(source)),
         LAMBDA c2 :
    Then(endCompiler(c2), LAMBDA c3 :
    [c3.m EXCEPT !.ret = IF c3.hadError THEN NULL ELSE c3.ret.function,
                 !.parser = [hadError |-> c3.hadError, panicMode |-> c3.panicMode,
                             events |-> c3.events],
                 !.stderr = c3.messages])))

(***************************************************************************)
(* value.c                                                                 *)
(***************************************************************************)
valuesEqual(a, b) ==
    IF a.type # b.type THEN FALSE
    ELSE CASE a.type = "VAL_BOOL"   -> a.as = b.as
           [] a.type = "VAL_NIL"    -> TRUE
           [] a.type = "VAL_NUMBER" -> a.as = b.as
           [] a.type = "VAL_OBJ"    -> a.as = b.as      \* AS_OBJ(a) == AS_OBJ(b)
           [] OTHER                 -> FALSE

(***************************************************************************)
(* vm.c.  A CallFrame is [closure, ip, slots]: ip counts the bytes of the  *)
(* chunk already read and slots is the index of the frame's slot zero in   *)
(* vm.stack.  m.ret carries a function's return value.                     *)
(***************************************************************************)
IsObjType(m, value, type) == IS_OBJ(value) /\ m.heap[AS_OBJ(value)].type = type

resetStack(m) == [m EXCEPT !.stackTop = 0, !.frames = << >>, !.openUpvalues = NULL]

\* The lines "[line L] in name()" that runtimeError writes, innermost frame
\* first: L is chunk.lines[ip - code - 1] and the script has no name.
stackTrace(m) ==
    [i \in 1 .. Len(m.frames) |->
        LET fr == m.frames[Len(m.frames) + 1 - i]
            fn == m.heap[m.heap[fr.closure].function]
        IN  [line |-> fn.lines[fr.ip],
             name |-> IF fn.name = NULL THEN << >> ELSE m.heap[fn.name].chars]]

\* A runtimeError that reports and leaves the stack as it is.
runtimeErrorKeeping(m, message) ==
    [m EXCEPT !.stderr = Append(@, message), !.trace = stackTrace(m)]

runtimeError(m, message) ==
    resetStack([m EXCEPT !.stderr = Append(@, message), !.trace = stackTrace(m)])

\* the value a native function returns
clockNative(m) == NUMBER_VAL(m.clock)

defineNative(m, name) ==
    Then(copyString(m, name), LAMBDA m1 :
    Then(push(m1, OBJ_VAL(m1.ret)), LAMBDA m2 :
    Then(newNative(m2, "clockNative"), LAMBDA m3 :
    Then(push(m3, OBJ_VAL(m3.ret)), LAMBDA m4 :
    Then(tableSet(m4, <<"globals", 0>>, AS_OBJ(m4.stack[1]), m4.stack[2]),
         LAMBDA m5 :
    pop(pop(m5)))))))

\* initVM up to its use of vm.strings; blank is the zero-filled static VM
initVMHead(blank) ==
    [resetStack(blank) EXCEPT !.objects = << >>, !.grayStack = << >>,
                              !.bytesAllocated = 0, !.nextGC = 1024 * 1024,
                              !.globals = initTable, !.initString = NULL]

initVM(blank) ==
    Then(copyString(initVMHead(blank), S_init), LAMBDA m2 :
    Then([m2 EXCEPT !.initString = m2.ret, !.strings = initTable,
                    !.leaked = @ + SizeOf.Entry * m2.strings.capacity], LAMBDA m4 :
    defineNative(m4, S_clock)))

\* vfprintf of the format "Expected %d arguments but got %d."
expectedArguments(arity, argCount) ==
    "Expected " \o ToString(arity) \o " arguments but got "
       \o ToString(argCount) \o "."

\* A call that pushes the frame whatever the number of arguments.
callAnyArity(m, closure, argCount) ==
    IF Len(m.frames) = FRAMES_MAX
    THEN [runtimeError(m, "Stack overflow.") EXCEPT !.ret = FALSE]
    ELSE [m EXCEPT !.frames = Append(@, [closure |-> closure, ip |-> 0,
                                         slots |-> m.stackTop - argCount - 1]),
                   !.ret = TRUE]

call(m, closure, argCount) ==
    LET fn == m.heap[closure].function IN
    IF argCount # m.heap[fn].arity
    THEN [runtimeError(m, expectedArguments(m.heap[fn].arity, argCount))
             EXCEPT !.ret = FALSE]
    ELSE IF Len(m.frames) = FRAMES_MAX
    THEN [runtimeError(m, "Stack overflow.") EXCEPT !.ret = FALSE]
    ELSE [m EXCEPT !.frames = Append(@, [closure |-> closure, ip |-> 0,
                                         slots |-> m.stackTop - argCount - 1]),
                   !.ret = TRUE]

\* the case OBJ_CLASS of callValue
callClass(m, klass, argCount) ==
    Then(newInstance(m, klass), LAMBDA m1 :
    Then(pokeTop(m1, argCount, OBJ_VAL(m1.ret)), LAMBDA m2 :
    Then(tableGet(m2, <<"methods", klass>>, m2.initString), LAMBDA m3 :
      IF m3.status = "crashed" THEN m3
      ELSE IF m3.ret[1] THEN call(m3, AS_OBJ(m3.ret[2]), argCount)
      ELSE IF argCount # 0
      THEN [runtimeError(m3, expectedArguments(0, argCount)) EXCEPT !.ret = FALSE]
      ELSE [m3 EXCEPT !.ret = TRUE])))

callValue(m, callee, argCount) ==
    LET type == IF IS_OBJ(callee) THEN m.heap[AS_OBJ(callee)].type ELSE "none" IN
    CASE type = "OBJ_BOUND_METHOD" ->
            call(pokeTop(m, argCount, m.heap[AS_OBJ(callee)].receiver),
                 m.heap[AS_OBJ(callee)].method, argCount)
      [] type = "OBJ_CLASS" -> callClass(m, AS_OBJ(callee), argCount)
      [] type = "OBJ_CLOSURE" -> call(m, AS_OBJ(callee), argCount)
      [] type = "OBJ_NATIVE" ->
            [push([m EXCEPT !.stackTop = @ - (argCount + 1)], clockNative(m))
                EXCEPT !.ret = TRUE]
      [] OTHER ->
            [runtimeError(m, "Can only call functions and classes.")
                EXCEPT !.ret = FALSE]

invokeFromClass(m, klass, name, argCount) ==
    Then(tableGet(m, <<"methods", klass>>, name), LAMBDA m1 :
      IF m1.status = "crashed" THEN m1
      ELSE IF ~m1.ret[1]
      THEN [runtimeError(m1, "Undefined property '%s'.") EXCEPT !.ret = FALSE]
      ELSE call(m1, AS_OBJ(m1.ret[2]), argCount))

\* An invoke that goes to the class without looking at the fields.
invokePastFields(m, name, argCount) ==
    IF ~IsObjType(m, peek(m, argCount), "OBJ_INSTANCE")
    THEN [runtimeError(m, "Only instances have methods.") EXCEPT !.ret = FALSE]
    ELSE invokeFromClass(m, m.heap[AS_OBJ(peek(m, argCount))].klass, name, argCount)

invoke(m, name, argCount) ==
    IF ~IsObjType(m, peek(m, argCount), "OBJ_INSTANCE")
    THEN [runtimeError(m, "Only instances have methods.") EXCEPT !.ret = FALSE]
    ELSE Then(tableGet(m, <<"fields", AS_OBJ(peek(m, argCount))>>, name), LAMBDA m1 :
           IF m1.ret[1]
           THEN callValue(pokeTop(m1, argCount, m1.ret[2]), m1.ret[2], argCount)
           ELSE invokeFromClass(m1, m1.heap[AS_OBJ(peek(m, argCount))].klass,
                                name, argCount))

bindMethod(m, klass, name) ==
    Then(tableGet(m, <<"methods", klass>>, name), LAMBDA m1 :
      IF m1.status = "crashed" THEN m1
      ELSE IF ~m1.ret[1]
      THEN [runtimeError(m1, "Undefined property '%s'.") EXCEPT !.ret = FALSE]
      ELSE Then(newBoundMethod(m1, peek(m1, 0), AS_OBJ(m1.ret[2])), LAMBDA m2 :
           [push(pop(m2), OBJ_VAL(m2.ret)) EXCEPT !.ret = TRUE]))

\* The walk of captureUpvalue down the open list; the result is
\* <<prevUpvalue, upvalue>>.
RECURSIVE captureWalk(_, _, _, _)
captureWalk(heap, prevUpvalue, upvalue, local) ==
    IF upvalue # NULL /\ heap[upvalue].location > local
    THEN captureWalk(heap, upvalue, heap[upvalue].next, local)
    ELSE <<prevUpvalue, upvalue>>

\* Does captureUpvalue hand out the upvalue its walk stopped at.
sameLocation(heap, upvalue, local) ==
    upvalue # NULL /\ heap[upvalue].location = local

\* An insertion that makes the created upvalue the head of the list
\* wherever the walk stopped.
linkAtHead(m, prevUpvalue, upvalue, createdUpvalue) ==
    [m EXCEPT !.heap[createdUpvalue].next = upvalue,
              !.openUpvalues = createdUpvalue]

\* createdUpvalue->next = upvalue and the link from prevUpvalue or the head
linkUpvalue(m, prevUpvalue, upvalue, createdUpvalue) ==
    IF prevUpvalue = NULL
    THEN [m EXCEPT !.heap[createdUpvalue].next = upvalue,
                   !.openUpvalues = createdUpvalue]
    ELSE [m EXCEPT !.heap[createdUpvalue].next = upvalue,
                   !.heap[prevUpvalue].next = createdUpvalue]

captureUpvalue(m, local) ==
    LET w == captureWalk(m.heap, NULL, m.openUpvalues, local) IN
    IF sameLocation(m.heap, w[2], local) THEN [m EXCEPT !.ret = w[2]]
    ELSE Then(newUpvalue(m, local), LAMBDA m1 :
           IF m1.status = "bound" THEN m1
           ELSE linkUpvalue(m1, w[1], w[2], m1.ret))

\* A closeUpvalues that closes the head of the open list without looking
\* at its slot.
closeHead(m, last) ==
    IF m.openUpvalues # NULL
    THEN LET upvalue == m.openUpvalues
             obj == m.heap[upvalue]
         IN  [m EXCEPT !.heap[upvalue].closed = m.stack[obj.location + 1],
                       !.heap[upvalue].location = -1,
                       !.openUpvalues = obj.next]
    ELSE m

RECURSIVE closeUpvalues(_, _)
closeUpvalues(m, last) ==
    IF m.openUpvalues # NULL /\ m.heap[m.openUpvalues].location >= last
    THEN LET upvalue == m.openUpvalues
             obj == m.heap[upvalue]
         IN  closeUpvalues(
                [m EXCEPT !.heap[upvalue].closed = m.stack[obj.location + 1],
                          !.heap[upvalue].location = -1,
                          !.openUpvalues = obj.next],
                last)
    ELSE m

defineMethod(m, name) ==
    pop(tableSet(m, <<"methods", AS_OBJ(peek(m, 1))>>, name, peek(m, 0)))

isFalsey(value) == IS_NIL(value) \/ (IS_BOOL(value) /\ value.as = 0)

concatenate(m) ==
    Then(ALLOCATE(m, SizeOf.char, Len(m.heap[AS_OBJ(peek(m, 1))].chars)
                                  + Len(m.heap[AS_OBJ(peek(m, 0))].chars) + 1),
         LAMBDA m1 :                                 \* ALLOCATE(char, length + 1)
    Then(takeString(m1, m.heap[AS_OBJ(peek(m, 1))].chars
                        \o m.heap[AS_OBJ(peek(m, 0))].chars),
         LAMBDA m2 :
    push(pop(pop(m2)), OBJ_VAL(m2.ret))))

(***************************************************************************)
(* vm.c, run(): the macros and one operator per case of the switch.  A     *)
(* case gets the machine after READ_BYTE() has fetched its opcode and      *)
(* leaves in m.ret "continue" (break, back to the loop) or the             *)
(* InterpretResult that run() returns.                                     *)
(***************************************************************************)
frame(m) == m.frames[Len(m.frames)]

READ_BYTE(m) ==
    [m EXCEPT !.frames[Len(m.frames)].ip = @ + 1,
              !.ret = m.heap[m.heap[frame(m).closure].function].code[frame(m).ip + 1]]

READ_CONSTANT(m) ==
    Then(READ_BYTE(m), LAMBDA m1 :
      [m1 EXCEPT !.ret = m.heap[m.heap[frame(m).closure].function]
                            .constants[m1.ret + 1]])

READ_SHORT(m) ==
    LET code == m.heap[m.heap[frame(m).closure].function].code
    IN  [m EXCEPT !.frames[Len(m.frames)].ip = @ + 2,
                  !.ret = ((code[frame(m).ip + 1] * 256) + code[frame(m).ip + 2])
                             % (UINT16_MAX + 1)]

READ_STRING(m) ==
    Then(READ_CONSTANT(m), LAMBDA m1 : [m1 EXCEPT !.ret = AS_OBJ(m1.ret)])

continue(m) == [m EXCEPT !.ret = "continue"]

\* runtimeError(...); return INTERPRET_RUNTIME_ERROR;
fail(m, message) == [runtimeError(m, message) EXCEPT !.ret = "INTERPRET_RUNTIME_ERROR"]

\* if (!f(...)) return INTERPRET_RUNTIME_ERROR; break;   m is f's result
orFail(m) ==
    IF m.ret = TRUE THEN continue(m) ELSE [m EXCEPT !.ret = "INTERPRET_RUNTIME_ERROR"]

runConstant(m) ==
    Then(READ_CONSTANT(m), LAMBDA m1 : continue(push(m1, m1.ret)))

runNil(m)   == continue(push(m, NIL_VAL))
runTrue(m)  == continue(push(m, BOOL_VAL(TRUE)))
runFalse(m) == continue(push(m, BOOL_VAL(FALSE)))

runPop(m) == continue(pop(m))

runJump(m) ==
    Then(READ_SHORT(m), LAMBDA m1 :
    continue([m1 EXCEPT !.frames[Len(m1.frames)].ip = @ + m1.ret]))

runJumpIfFalse(m) ==
    Then(READ_SHORT(m), LAMBDA m1 :
    continue(IF isFalsey(peek(m1, 0))
             THEN [m1 EXCEPT !.frames[Len(m1.frames)].ip = @ + m1.ret]
             ELSE m1))

runLoop(m) ==
    Then(READ_SHORT(m), LAMBDA m1 :
    continue([m1 EXCEPT !.frames[Len(m1.frames)].ip = @ - m1.ret]))

\* The parts of for statements at whose start the frame stands: for each
\* loop of the running function with a part at ip, the names of the parts
\* there, whether the value on top is falsey and the height of the frame.
LoopParts == {"init", "cond", "test", "incr", "body", "exit", "end"}

partsAt(m) ==
    LET f == m.heap[frame(m).closure].function
    IN  {[loop |-> <<f, L.init, Len(m.frames)>>, parts |-> L,
          at |-> {p \in LoopParts : L[p] = frame(m).ip},
          falsy |-> m.stackTop > 0 /\ isFalsey(peek(m, 0)),
          height |-> m.stackTop - frame(m).slots] : L \in m.heap[f].loops}

\* m.path: the parts of its for statements that the line has come to
traced(m) ==
    LET here == {e \in partsAt(m) : e.at # {}}
        inOrder == CHOOSE q \in [1 .. Cardinality(here) -> here] :
                      \A i, j \in DOMAIN q : i < j => q[i].loop[2] < q[j].loop[2]
    IN  IF here = {} THEN m ELSE [m EXCEPT !.path = @ \o inOrder]

runGetLocal(m) ==
    Then(READ_BYTE(m), LAMBDA m1 :
      continue(push(m1, m1.stack[frame(m1).slots + m1.ret + 1])))

runSetLocal(m) ==
    Then(READ_BYTE(m), LAMBDA m1 :
      continue([m1 EXCEPT !.stack[frame(m1).slots + m1.ret + 1] = peek(m1, 0)]))

runGetGlobal(m) ==
    Then(READ_STRING(m), LAMBDA m1 :
    Then(tableGet(m1, <<"globals", 0>>, m1.ret), LAMBDA m2 :
      IF ~m2.ret[1] THEN fail(m2, "Undefined variable '%s'.")
      ELSE continue(push(m2, m2.ret[2]))))

runDefineGlobal(m) ==
    Then(READ_STRING(m), LAMBDA m1 :
    Then(tableSet(m1, <<"globals", 0>>, m1.ret, peek(m1, 0)), LAMBDA m2 :
    continue(pop(m2))))

runSetGlobal(m) ==
    Then(READ_STRING(m), LAMBDA m1 :
    Then(tableSet(m1, <<"globals", 0>>, m1.ret, peek(m1, 0)), LAMBDA m2 :
      IF m2.ret
      THEN fail(tableDelete(m2, <<"globals", 0>>, m1.ret), "Undefined variable '%s'.")
      ELSE continue(m2)))

\* *upvalue->location
readLocation(m, upvalue) ==
    LET obj == m.heap[upvalue] IN
    IF obj.location = -1 THEN obj.closed ELSE m.stack[obj.location + 1]

\* *upvalue->location = value
writeLocation(m, upvalue, value) ==
    IF m.heap[upvalue].location = -1
    THEN [m EXCEPT !.heap[upvalue].closed = value]
    ELSE [m EXCEPT !.stack[m.heap[upvalue].location + 1] = value]

\* frame->closure->upvalues[slot]
frameUpvalue(m, slot) == m.heap[frame(m).closure].upvalues[slot + 1]

runGetUpvalue(m) ==
    Then(READ_BYTE(m), LAMBDA m1 :
      continue(push(m1, readLocation(m1, frameUpvalue(m1, m1.ret)))))

runSetUpvalue(m) ==
    Then(READ_BYTE(m), LAMBDA m1 :
      continue(writeLocation(m1, frameUpvalue(m1, m1.ret), peek(m1, 0))))

runGetProperty(m) ==
    IF ~IsObjType(m, peek(m, 0), "OBJ_INSTANCE")
    THEN fail(m, "Obly instance have properties.")
    ELSE Then(READ_STRING(m), LAMBDA m1 :
         Then(tableGet(m1, <<"fields", AS_OBJ(peek(m, 0))>>, m1.ret), LAMBDA m2 :
           IF m2.ret[1] THEN continue(push(pop(m2), m2.ret[2]))
           ELSE orFail(bindMethod(m2, m2.heap[AS_OBJ(peek(m, 0))].klass, m1.ret))))

runSetProperty(m) ==
    IF ~IsObjType(m, peek(m, 1), "OBJ_INSTANCE")
    THEN fail(m, "Only instance have fields.")
    ELSE Then(READ_STRING(m), LAMBDA m1 :
         Then(tableSet(m1, <<"fields", AS_OBJ(peek(m, 1))>>, m1.ret, peek(m1, 0)),
              LAMBDA m2 :
         Then(pop(m2), LAMBDA m3 :
         continue(push(pop(m3), m3.ret)))))

runGetSuper(m) ==
    Then(READ_STRING(m), LAMBDA m1 :
    Then(pop(m1), LAMBDA m2 :
    orFail(bindMethod(m2, AS_OBJ(m2.ret), m1.ret))))

runEqual(m) ==
    Then(pop(m), LAMBDA m1 :
    Then(pop(m1), LAMBDA m2 :
    continue(push(m2, BOOL_VAL(valuesEqual(m2.ret, m1.ret))))))

\* BINARY_OP for the operators whose result on small integers is the
\* result on doubles: a and b are the numbers popped
binaryResult(instruction, a, b) ==
    CASE instruction = OP_GREATER  -> BOOL_VAL(a > b)
      [] instruction = OP_LESS     -> BOOL_VAL(a < b)
      [] instruction = OP_SUBTRACT -> NUMBER_VAL(a - b)
      [] instruction = OP_MULTIPLY -> NUMBER_VAL(a * b)

BINARY_OP(m, instruction) ==
    IF ~IS_NUMBER(peek(m, 0)) \/ ~IS_NUMBER(peek(m, 1))
    THEN fail(m, "Operands must be numbers.")
    ELSE Then(pop(m), LAMBDA m1 :
         Then(pop(m1), LAMBDA m2 :
         continue(push(m2, binaryResult(instruction, m2.ret.as, m1.ret.as)))))

\* An OP_ADD that adds whatever it pops unless both are strings.
runAddUnchecked(m) ==
    IF IsObjType(m, peek(m, 0), "OBJ_STRING") /\ IsObjType(m, peek(m, 1), "OBJ_STRING")
    THEN continue(concatenate(m))
    ELSE Then(pop(m), LAMBDA m1 :
         Then(pop(m1), LAMBDA m2 :
         continue(push(m2, NUMBER_VAL(m2.ret.as + m1.ret.as)))))

runAdd(m) ==
    IF IsObjType(m, peek(m, 0), "OBJ_STRING") /\ IsObjType(m, peek(m, 1), "OBJ_STRING")
    THEN continue(concatenate(m))
    ELSE IF IS_NUMBER(peek(m, 0)) /\ IS_NUMBER(peek(m, 1))
    THEN Then(pop(m), LAMBDA m1 :
         Then(pop(m1), LAMBDA m2 :
         continue(push(m2, NUMBER_VAL(m2.ret.as + m1.ret.as)))))
    ELSE fail(m, "Operands must be two numbers or two strings.")

runNot(m) ==
    Then(pop(m), LAMBDA m1 : continue(push(m1, BOOL_VAL(isFalsey(m1.ret)))))

\* printValue sends the value to stdout; m.stdout keeps the latest one
runPrint(m) ==
    Then(pop(m), LAMBDA m1 : continue([m1 EXCEPT !.stdout = m1.ret]))

runInvoke(m) ==
    Then(READ_STRING(m), LAMBDA m1 :
    Then(READ_BYTE(m1), LAMBDA m2 :
    orFail(invoke(m2, m1.ret, m2.ret))))

runSuperInvoke(m) ==
    Then(READ_STRING(m), LAMBDA m1 :
    Then(READ_BYTE(m1), LAMBDA m2 :
    Then(pop(m2), LAMBDA m3 :
    orFail(invokeFromClass(m3, AS_OBJ(m3.ret), m1.ret, m2.ret)))))

\* closure->upvalues[i] of the loop of OP_CLOSURE, m after its two
\* READ_BYTEs; m.ret is the upvalue
closureUpvalue(m, fr, isLocal, index) ==
    IF isLocal # 0 THEN captureUpvalue(m, m.frames[fr].slots + index)
    ELSE [m EXCEPT !.ret = m.heap[m.frames[fr].closure].upvalues[index + 1]]

\* One turn of the loop of OP_CLOSURE over the upvalues; fr is the index
\* of the frame that executes the instruction.
closureUpvalueStep(m, fr, closure, i) ==
    IF m.status = "bound" THEN m
    ELSE Then(READ_BYTE(m), LAMBDA m1 :
         Then(READ_BYTE(m1), LAMBDA m2 :
         Then(closureUpvalue(m2, fr, m1.ret, m2.ret), LAMBDA m3 :
         [m3 EXCEPT !.heap[closure].upvalues[i + 1] = m3.ret])))

runClosure(m) ==
    Then(READ_CONSTANT(m), LAMBDA m1 :
    Then(newClosure(m1, AS_OBJ(m1.ret)), LAMBDA m2 :
    Then(push(m2, OBJ_VAL(m2.ret)), LAMBDA m3 :
      IF m3.status = "bound" THEN m3
      ELSE continue(Loop(LAMBDA s, i : closureUpvalueStep(s, Len(m3.frames), m2.ret, i),
                         m3, 0, m3.heap[m2.ret].upvalueCount - 1)))))

runCloseUpvalue(m) == continue(pop(closeUpvalues(m, m.stackTop - 1)))

\* An OP_RETURN that leaves the open upvalues of the frame as they are.
runReturnOpen(m) ==
    Then(pop(m), LAMBDA m1 :
    Then([m1 EXCEPT !.frames = SubSeq(@, 1, Len(@) - 1)], LAMBDA m3 :
      IF Len(m3.frames) = 0 THEN [pop(m3) EXCEPT !.ret = "INTERPRET_OK"]
      ELSE continue(push([m3 EXCEPT !.stackTop = frame(m1).slots], m1.ret))))

runReturn(m) ==
    Then(pop(m), LAMBDA m1 :
    Then(closeUpvalues(m1, frame(m1).slots), LAMBDA m2 :
    Then([m2 EXCEPT !.frames = SubSeq(@, 1, Len(@) - 1)], LAMBDA m3 :
      IF Len(m3.frames) = 0 THEN [pop(m3) EXCEPT !.ret = "INTERPRET_OK"]
      ELSE continue(push([m3 EXCEPT !.stackTop = frame(m1).slots], m1.ret)))))

runClass(m, zeroed) ==
    Then(READ_STRING(m), LAMBDA m1 :
    Then(newClass(m1, m1.ret, zeroed), LAMBDA m2 :
    continue(push(m2, OBJ_VAL(m2.ret)))))

runCall(m) ==
    Then(READ_BYTE(m), LAMBDA m1 :
    orFail(callValue(m1, peek(m1, m1.ret), m1.ret)))

runInherit(m) ==
    IF ~IsObjType(m, peek(m, 1), "OBJ_CLASS")
    THEN fail(m, "Superclass must be a class.")
    ELSE continue(pop(tableAddAll(m, <<"methods", AS_OBJ(peek(m, 1))>>,
                                     <<"methods", AS_OBJ(peek(m, 0))>>)))

runMethod(m) ==
    Then(READ_STRING(m), LAMBDA m1 : continue(defineMethod(m1, m1.ret)))

\* One turn of the loop of run(): the instruction is fetched and its case
\* runs.  zeroed is what OP_CLASS finds in the block malloc hands it.
run(m, zeroed) ==
    Then(READ_BYTE(traced(m)), LAMBDA m0 :
      CASE m0.ret = OP_CONSTANT      -> runConstant(m0)
        [] m0.ret = OP_JUMP          -> runJump(m0)
        [] m0.ret = OP_JUMP_IF_FALSE -> runJumpIfFalse(m0)
        [] m0.ret = OP_LOOP          -> runLoop(m0)
        [] m0.ret = OP_NIL           -> runNil(m0)
        [] m0.ret = OP_TRUE          -> runTrue(m0)
        [] m0.ret = OP_FALSE         -> runFalse(m0)
        [] m0.ret = OP_POP           -> runPop(m0)
        [] m0.ret = OP_GET_LOCAL     -> runGetLocal(m0)
        [] m0.ret = OP_SET_LOCAL     -> runSetLocal(m0)
        [] m0.ret = OP_GET_GLOBAL    -> runGetGlobal(m0)
        [] m0.ret = OP_DEFINE_GLOBAL -> runDefineGlobal(m0)
        [] m0.ret = OP_SET_GLOBAL    -> runSetGlobal(m0)
        [] m0.ret = OP_GET_UPVALUE   -> runGetUpvalue(m0)
        [] m0.ret = OP_SET_UPVALUE   -> runSetUpvalue(m0)
        [] m0.ret = OP_GET_PROPERTY  -> runGetProperty(m0)
        [] m0.ret = OP_SET_PROPERTY  -> runSetProperty(m0)
        [] m0.ret = OP_GET_SUPER     -> runGetSuper(m0)
        [] m0.ret = OP_EQUAL         -> runEqual(m0)
        [] m0.ret \in {OP_GREATER, OP_LESS, OP_SUBTRACT, OP_MULTIPLY}
                                     -> BINARY_OP(m0, m0.ret)
        [] m0.ret = OP_ADD           -> runAdd(m0)
        [] m0.ret = OP_NOT           -> runNot(m0)
        [] m0.ret = OP_PRINT         -> runPrint(m0)
        [] m0.ret = OP_CALL          -> runCall(m0)
        [] m0.ret = OP_INVOKE        -> runInvoke(m0)
        [] m0.ret = OP_SUPER_INVOKE  -> runSuperInvoke(m0)
        [] m0.ret = OP_CLOSURE       -> runClosure(m0)
        [] m0.ret = OP_CLOSE_UPVALUE -> runCloseUpvalue(m0)
        [] m0.ret = OP_RETURN        -> runReturn(m0)
        [] m0.ret = OP_CLASS         -> runClass(m0, zeroed)
        [] m0.ret = OP_INHERIT       -> runInherit(m0)
        [] m0.ret = OP_METHOD        -> runMethod(m0)
        [] OTHER                     -> [m0 EXCEPT !.status = "bound"])

\* interpret() up to its call of run(): m.ret is "continue" when run() is
\* entered and INTERPRET_COMPILE_ERROR otherwise
interpret(m, source) ==
    Then(compile([m EXCEPT !.path = << >>], source), LAMBDA m1 :
      IF m1.ret = NULL THEN [m1 EXCEPT !.ret = "INTERPRET_COMPILE_ERROR"]
      ELSE Then(push(m1, OBJ_VAL(m1.ret)), LAMBDA m2 :
           Then(newClosure(m2, m1.ret), LAMBDA m3 :
           Then(push(pop(m3), OBJ_VAL(m3.ret)), LAMBDA m4 :
           continue(callValue(m4, OBJ_VAL(m3.ret), 0))))))

\* The growing request at which a call of an entry may collect: any of
\* the requests the call makes, and none.
gcChoices(m, requests) ==
    IF m.gcLog.runs < MaxGC THEN 0 .. Min({requests, MaxGcAt}) ELSE {0}

\* for (;;) of run(): its turns until one of them returns.
turns(m, zeroed) ==
    LET going(s) == s.status \notin {"crashed", "bound"} /\ s.ret = "continue"
        m1 == While(going, LAMBDA s : run(s, zeroed), [m EXCEPT !.ret = "continue"],
                    TurnBits)
    IN  IF going(m1) THEN [m1 EXCEPT !.status = "bound"] ELSE m1

\* "step" is the set of the machines that the entry arg[1] may leave,
\* one for each request at which it may collect.
clox(entry, m, arg) ==
    CASE entry = "collectGarbage" -> collectGarbage(m)
      [] entry = "reallocate"     -> reallocate(m, arg[1], arg[2])
      [] entry = "expression"     -> expression(m, arg)
      [] entry = "initVM"         -> initVM(m)
      [] entry = "interpret"      -> interpret(m, arg)
      [] entry = "run"            -> run(m, arg)
      [] entry = "turns"          -> turns(m, arg)
      [] entry = "step"           ->
            {clox(arg[1], [m EXCEPT !.gcAt = k], arg[2]) :
                k \in gcChoices(m, clox(arg[1], m, arg[2]).requests)}

(***************************************************************************)
(* main.c: the source text handed to interpret().  The scanner and the     *)
(* Pratt parser turn text into the calls of the parse functions; a         *)
(* syntax tree stands for the text and the constructors below build it.    *)
(* Identifiers and string literals are sequences of character codes.       *)
(***************************************************************************)
Num(value)                == [k |-> "number", value |-> value]
Str(chars)                == [k |-> "string", chars |-> chars]
Lit(token)                == [k |-> "literal", token |-> token]
Var(name)                 == [k |-> "variable", name |-> name]
Assign(name, value)       == [k |-> "assign", name |-> name, value |-> value]
Binary(left, operator, right) ==
    [k |-> "binary", operator |-> operator, left |-> left, right |-> right]
Call(callee, args)        == [k |-> "call", callee |-> callee, args |-> args]
Get(object, name)         == [k |-> "get", object |-> object, name |-> name]
Set(object, name, value)  ==
    [k |-> "set", object |-> object, name |-> name, value |-> value]
Invoke(object, name, args) ==
    [k |-> "invoke", object |-> object, name |-> name, args |-> args]
Ego                       == [k |-> "ego"]
NoClause                  == [k |-> "none"]
For(init, cond, incr, body) ==
    [k |-> "for", init |-> init, cond |-> cond, incr |-> incr, body |-> body]
SuperCall(name, args)     == [k |-> "super", name |-> name, isCall |-> TRUE, args |-> args]
SuperGet(name)            == [k |-> "super", name |-> name, isCall |-> FALSE, args |-> << >>]

ExprStmt(e)               == [k |-> "expressionStatement", expression |-> e]
PrintStmt(e)              == [k |-> "print", expression |-> e]
VarDecl(name, e)          ==
    [k |-> "var", name |-> name, hasInitializer |-> TRUE, initializer |-> e]
VarDeclNil(name)          ==
    [k |-> "var", name |-> name, hasInitializer |-> FALSE, initializer |-> Lit("nil")]
Block(body)               == [k |-> "block", body |-> body]
Raw(tokens)               == [k |-> "raw", tokens |-> tokens]
FunDecl(name, params, body) ==
    [k |-> "fun", name |-> name, params |-> params, body |-> body]
Return(e)                 == [k |-> "return", hasValue |-> TRUE, value |-> e]
ReturnNil                 == [k |-> "return", hasValue |-> FALSE, value |-> Lit("nil")]
Method(name, params, body) == [name |-> name, params |-> params, body |-> body]
ClassDecl(name, methods)  ==
    [k |-> "class", name |-> name, hasSuperclass |-> FALSE, superclass |-> << >>,
     methods |-> methods]
SubclassDecl(name, superclass, methods) ==
    [k |-> "class", name |-> name, hasSuperclass |-> TRUE, superclass |-> superclass,
     methods |-> methods]

\* the identifiers and string contents the sessions use
Id == [a |-> <<97>>, b |-> <<98>>, c |-> <<99>>, d |-> <<100>>, e |-> <<101>>,
       i |-> <<105>>,
       f |-> <<102>>, g |-> <<103>>, h |-> <<104>>, k |-> <<107>>, m |-> <<109>>,
       n |-> <<110>>, o |-> <<111>>, s |-> <<115>>, t |-> <<116>>, x |-> <<120>>,
       y |-> <<121>>, A |-> <<65>>, B |-> <<66>>, C |-> <<67>>, D |-> <<68>>,
       ab |-> <<97, 98>>, f1 |-> <<102, 49>>,
       get |-> <<103, 101, 116>>, set |-> <<115, 101, 116>>,
       outer |-> <<111, 117, 116, 101, 114>>, test |-> <<116, 101, 115, 116>>,
       show |-> <<115, 104, 111, 119>>,
       costarring |-> <<99, 111, 115, 116, 97, 114, 114, 105, 110, 103>>,
       liquid |-> <<108, 105, 113, 117, 105, 100>>,
       ebfnolh |-> <<101, 98, 102, 110, 111, 108, 104>>]

(***************************************************************************)
(* The sessions: what a user types at the prompt of repl(), one            *)
(* interpret() call per line.                                              *)
(***************************************************************************)
\* var a = 1; print a; a = 2; print a;
\* var b = 2; var c = 3; var d = 4; var e = 5; var g = 7; print a;
\* print a + b;
GlobalsSession ==
    << << VarDecl(Id.a, Num(1)), PrintStmt(Var(Id.a)),
          ExprStmt(Assign(Id.a, Num(2))), PrintStmt(Var(Id.a)) >>,
       << VarDecl(Id.b, Num(2)), VarDecl(Id.c, Num(3)), VarDecl(Id.d, Num(4)),
          VarDecl(Id.e, Num(5)), VarDecl(Id.g, Num(7)), PrintStmt(Var(Id.a)) >>,
       << PrintStmt(Binary(Var(Id.a), "+", Var(Id.b))) >> >>

\* print "a" == "a"; print "a" + "b" == "ab"; print "a" != "b";
\* var s = "a"; var t = s; print s == t; print 1 < 2; print true == false; print nil;
\* print s + s;
StringsSession ==
    << << PrintStmt(Binary(Str(Id.a), "==", Str(Id.a))),
          PrintStmt(Binary(Binary(Str(Id.a), "+", Str(Id.b)), "==", Str(Id.ab))),
          PrintStmt(Binary(Str(Id.a), "!=", Str(Id.b))) >>,
       << VarDecl(Id.s, Str(Id.a)), VarDecl(Id.t, Var(Id.s)),
          PrintStmt(Binary(Var(Id.s), "==", Var(Id.t))),
          PrintStmt(Binary(Num(1), "<", Num(2))),
          PrintStmt(Binary(Lit("true"), "==", Lit("false"))),
          PrintStmt(Lit("nil")) >>,
       << PrintStmt(Binary(Var(Id.s), "+", Var(Id.s))) >> >>

\* class A { a() { return 7; } } fun f1() { return 8; } var o = A(); o.a = f1;
\*    print o.a == f1; print o.a();
\* o.b = 2; o.c = 3; o.d = 4; o.e = 5; o.g = 6; o.h = 7; print o.a == f1; o.a();
\* print o.x;
FieldsSession ==
    << << ClassDecl(Id.A, << Method(Id.a, << >>, << Return(Num(7)) >>) >>),
          FunDecl(Id.f1, << >>, << Return(Num(8)) >>),
          VarDecl(Id.o, Call(Var(Id.A), << >>)),
          ExprStmt(Set(Var(Id.o), Id.a, Var(Id.f1))),
          PrintStmt(Binary(Get(Var(Id.o), Id.a), "==", Var(Id.f1))),
          PrintStmt(Invoke(Var(Id.o), Id.a, << >>)) >>,
       << ExprStmt(Set(Var(Id.o), Id.b, Num(2))), ExprStmt(Set(Var(Id.o), Id.c, Num(3))),
          ExprStmt(Set(Var(Id.o), Id.d, Num(4))), ExprStmt(Set(Var(Id.o), Id.e, Num(5))),
          ExprStmt(Set(Var(Id.o), Id.g, Num(6))), ExprStmt(Set(Var(Id.o), Id.h, Num(7))),
          PrintStmt(Binary(Get(Var(Id.o), Id.a), "==", Var(Id.f1))),
          ExprStmt(Invoke(Var(Id.o), Id.a, << >>)) >>,
       << PrintStmt(Get(Var(Id.o), Id.x)) >> >>

\* class A { costarring() { return 1; } show() { return ego; } }
\*    class B < A { liquid() { return 2; } test() { return super.costarring(); } }
\*    print B().test();
\* class C { costarring() { return 1; } liquid() { return 2; } }
\*    class D < C { test() { return super.costarring(); }
\*                  get() { var k = super.liquid; return k(); } }
\*    print D().test(); print D().get();
InheritSession ==
    << << ClassDecl(Id.A, << Method(Id.costarring, << >>, << Return(Num(1)) >>),
                             Method(Id.show, << >>, << Return(Ego) >>) >>),
          SubclassDecl(Id.B, Id.A,
             << Method(Id.liquid, << >>, << Return(Num(2)) >>),
                Method(Id.test, << >>, << Return(SuperCall(Id.costarring, << >>)) >>) >>),
          PrintStmt(Invoke(Call(Var(Id.B), << >>), Id.test, << >>)) >>,
       << ClassDecl(Id.C, << Method(Id.costarring, << >>, << Return(Num(1)) >>),
                             Method(Id.liquid, << >>, << Return(Num(2)) >>) >>),
          SubclassDecl(Id.D, Id.C,
             << Method(Id.test, << >>, << Return(SuperCall(Id.costarring, << >>)) >>),
                Method(Id.get, << >>,
                   << VarDecl(Id.k, SuperGet(Id.liquid)),
                      Return(Call(Var(Id.k), << >>)) >>) >>),
          PrintStmt(Invoke(Call(Var(Id.D), << >>), Id.test, << >>)),
          PrintStmt(Invoke(Call(Var(Id.D), << >>), Id.get, << >>)) >> >>

\* the body of outer():  var x = 1; fun get() { return x; } fun set() { x = 2; }
\*                       g = get; h = set;
outerBody ==
    << VarDecl(Id.x, Num(1)),
       FunDecl(Id.get, << >>, << Return(Var(Id.x)) >>),
       FunDecl(Id.set, << >>, << ExprStmt(Assign(Id.x, Num(2))) >>),
       ExprStmt(Assign(Id.g, Var(Id.get))),
       ExprStmt(Assign(Id.h, Var(Id.set))) >>

\* var g; var h; fun outer() { ...outerBody... } outer();
\*    { var y = 1; fun k() { return y; } y = 3; print k(); }
\* var g; var h; fun outer() { ...outerBody... nil(); } outer();
\* h(); print 3 + 4; print g();
ClosuresSession ==
    << << VarDeclNil(Id.g), VarDeclNil(Id.h),
          FunDecl(Id.outer, << >>, outerBody),
          ExprStmt(Call(Var(Id.outer), << >>)),
          Block(<< VarDecl(Id.y, Num(1)),
                   FunDecl(Id.k, << >>, << Return(Var(Id.y)) >>),
                   ExprStmt(Assign(Id.y, Num(3))),
                   PrintStmt(Call(Var(Id.k), << >>)) >>) >>,
       << VarDeclNil(Id.g), VarDeclNil(Id.h),
          FunDecl(Id.outer, << >>,
                  outerBody \o << ExprStmt(Call(Lit("nil"), << >>)) >>),
          ExprStmt(Call(Var(Id.outer), << >>)) >>,
       << ExprStmt(Call(Var(Id.h), << >>)),
          PrintStmt(Binary(Num(3), "+", Num(4))),
          PrintStmt(Call(Var(Id.g), << >>)) >> >>

\* class A { init(n) { ego.n = n; } get() { return ego.n; } }
\*    var o = A(5); var m = o.get; print m(); print clock() == clock();
\* return 1;
\* 1; print o.get() * 2 - 1 > 0;
ObjectsSession ==
    << << ClassDecl(Id.A,
             << Method(S_init, << Id.n >>, << ExprStmt(Set(Ego, Id.n, Var(Id.n))) >>),
                Method(Id.get, << >>, << Return(Get(Ego, Id.n)) >>) >>),
          VarDecl(Id.o, Call(Var(Id.A), << Num(5) >>)),
          VarDecl(Id.m, Get(Var(Id.o), Id.get)),
          PrintStmt(Call(Var(Id.m), << >>)),
          PrintStmt(Binary(Call(Var(S_clock), << >>), "==", Call(Var(S_clock), << >>))) >>,
       << Return(Num(1)) >>,
       << ExprStmt(Num(1)),
          PrintStmt(Binary(Binary(Binary(Invoke(Var(Id.o), Id.get, << >>), "*", Num(2)),
                                  "-", Num(1)), ">", Num(0))) >> >>

\* class A { init(n) { ego.n = n; return; } } var o = A(3); print o.n;
\* class B { init() { return 1; } }
\* class C { init(n) {} a() {} b() {} c() {} d() {} e() {} f() {} g() {} }
\*    var o = C(4); print 1;
InitSession ==
    << << ClassDecl(Id.A,
             << Method(S_init, << Id.n >>,
                       << ExprStmt(Set(Ego, Id.n, Var(Id.n))), ReturnNil >>) >>),
          VarDecl(Id.o, Call(Var(Id.A), << Num(3) >>)),
          PrintStmt(Get(Var(Id.o), Id.n)) >>,
       << ClassDecl(Id.B, << Method(S_init, << >>, << Return(Num(1)) >>) >>) >>,
       << ClassDecl(Id.C,
             << Method(S_init, << Id.n >>, << >>),
                Method(Id.a, << >>, << >>), Method(Id.b, << >>, << >>),
                Method(Id.c, << >>, << >>), Method(Id.d, << >>, << >>),
                Method(Id.e, << >>, << >>), Method(Id.f, << >>, << >>),
                Method(Id.g, << >>, << >>) >>),
          VarDecl(Id.o, Call(Var(Id.C), << Num(4) >>)),
          PrintStmt(Num(1)) >> >>

\* print 1 + 2; print "a" + "b"; print 1 + "a";
\* print "a" + nil;
\* fun f(n) { return true + n; } fun g() { var x = 1; return f(x); } print 7; g();
AddSession ==
    << << PrintStmt(Binary(Num(1), "+", Num(2))),
          PrintStmt(Binary(Str(Id.a), "+", Str(Id.b))),
          PrintStmt(Binary(Num(1), "+", Str(Id.a))) >>,
       << PrintStmt(Binary(Str(Id.a), "+", Lit("nil"))) >>,
       << FunDecl(Id.f, << Id.n >>, << Return(Binary(Lit("true"), "+", Var(Id.n))) >>),
          FunDecl(Id.g, << >>, << VarDecl(Id.x, Num(1)),
                                  Return(Call(Var(Id.f), << Var(Id.x) >>)) >>),
          PrintStmt(Num(7)),
          ExprStmt(Call(Var(Id.g), << >>)) >> >>

\* fun f(a) { return a; } print f(1); f();
\* fun f(a) { return a; } f(1, 2);
\* fun f() { f(); } f();
CallSession ==
    << << FunDecl(Id.f, << Id.a >>, << Return(Var(Id.a)) >>),
          PrintStmt(Call(Var(Id.f), << Num(1) >>)),
          ExprStmt(Call(Var(Id.f), << >>)) >>,
       << FunDecl(Id.f, << Id.a >>, << Return(Var(Id.a)) >>),
          ExprStmt(Call(Var(Id.f), << Num(1), Num(2) >>)) >>,
       << FunDecl(Id.f, << >>, << ExprStmt(Call(Var(Id.f), << >>)) >>),
          ExprStmt(Call(Var(Id.f), << >>)) >> >>

\* fun outer() { var a = 1; var b = 2; var c = 3;
\*                fun f() { return a + c; } fun g() { return b + a; }
\*                return g; }
\*    print outer()();
UpvaluesSession ==
    << << FunDecl(Id.outer, << >>,
             << VarDecl(Id.a, Num(1)), VarDecl(Id.b, Num(2)), VarDecl(Id.c, Num(3)),
                FunDecl(Id.f, << >>, << Return(Binary(Var(Id.a), "+", Var(Id.c))) >>),
                FunDecl(Id.g, << >>, << Return(Binary(Var(Id.b), "+", Var(Id.a))) >>),
                Return(Var(Id.g)) >>),
          PrintStmt(Call(Call(Var(Id.outer), << >>), << >>)) >> >>

\* var a = 1; x = 2;
\* print a; x = 3;
\* var b = 2; var c = 3; var d = 4; x = 6;
\* print x;
AssignSession ==
    << << VarDecl(Id.a, Num(1)), ExprStmt(Assign(Id.x, Num(2))) >>,
       << PrintStmt(Var(Id.a)), ExprStmt(Assign(Id.x, Num(3))) >>,
       << VarDecl(Id.b, Num(2)), VarDecl(Id.c, Num(3)), VarDecl(Id.d, Num(4)),
          ExprStmt(Assign(Id.x, Num(6))) >>,
       << PrintStmt(Var(Id.x)) >> >>

\* @ @
\* print 1 + 2;
\* print + 1 2; print 3 print 4;
\* 1 + ; 2 print 5
\* return 1; 1 2 + 3; @ print 6;
PanicSession ==
    << << Raw(<< Tok("TOKEN_ERROR"), Tok("TOKEN_ERROR") >>) >>,
       << Raw(<< Tok("TOKEN_PRINT"), NumTok(1), Tok("TOKEN_PLUS"), NumTok(2),
                 Tok("TOKEN_SEMICOLON") >>) >>,
       << Raw(<< Tok("TOKEN_PRINT"), Tok("TOKEN_PLUS"), NumTok(1), NumTok(2),
                 Tok("TOKEN_SEMICOLON"), Tok("TOKEN_PRINT"), NumTok(3),
                 Tok("TOKEN_PRINT"), NumTok(4), Tok("TOKEN_SEMICOLON") >>) >>,
       << Raw(<< NumTok(1), Tok("TOKEN_PLUS"), Tok("TOKEN_SEMICOLON"), NumTok(2),
                 Tok("TOKEN_PRINT"), NumTok(5) >>) >>,
       << Return(Num(1)),
          Raw(<< NumTok(1), NumTok(2), Tok("TOKEN_PLUS"), NumTok(3),
                 Tok("TOKEN_SEMICOLON"), Tok("TOKEN_ERROR"),
                 Tok("TOKEN_PRINT"), NumTok(6),
                 Tok("TOKEN_SEMICOLON") >>) >> >>

\* class A { m(x) { return x; } } fun f(x) { return x + 1; } var o = A();
\*    o.f = f; o.n = 3; o.k = A; o.b = o.m;
\*    print o.m(1); print o.f(1); print o.b(2); print o.k();
\* o.n();
\* o.x(1);
\* o.m();
\* o.c = clock; print o.c();
InvokeSession ==
    << << ClassDecl(Id.A, << Method(Id.m, << Id.x >>, << Return(Var(Id.x)) >>) >>),
          FunDecl(Id.f, << Id.x >>, << Return(Binary(Var(Id.x), "+", Num(1))) >>),
          VarDecl(Id.o, Call(Var(Id.A), << >>)),
          ExprStmt(Set(Var(Id.o), Id.f, Var(Id.f))),
          ExprStmt(Set(Var(Id.o), Id.n, Num(3))),
          ExprStmt(Set(Var(Id.o), Id.k, Var(Id.A))),
          ExprStmt(Set(Var(Id.o), Id.b, Get(Var(Id.o), Id.m))),
          PrintStmt(Invoke(Var(Id.o), Id.m, << Num(1) >>)),
          PrintStmt(Invoke(Var(Id.o), Id.f, << Num(1) >>)),
          PrintStmt(Invoke(Var(Id.o), Id.b, << Num(2) >>)),
          PrintStmt(Invoke(Var(Id.o), Id.k, << >>)) >>,
       << ExprStmt(Invoke(Var(Id.o), Id.n, << >>)) >>,
       << ExprStmt(Invoke(Var(Id.o), Id.x, << Num(1) >>)) >>,
       << ExprStmt(Invoke(Var(Id.o), Id.m, << >>)) >>,
       << ExprStmt(Set(Var(Id.o), Id.c, Var(S_clock))),
          PrintStmt(Invoke(Var(Id.o), Id.c, << >>)) >> >>

\* class A { ebfnolh(x) { print x; } } print A(5);
\* class B { m() {} } print B(1);
\* class C { init(a) {} } class D < C {} print D(1); D();
ConstructSession ==
    << << ClassDecl(Id.A, << Method(Id.ebfnolh, << Id.x >>, << PrintStmt(Var(Id.x)) >>) >>),
          PrintStmt(Call(Var(Id.A), << Num(5) >>)) >>,
       << ClassDecl(Id.B, << Method(Id.m, << >>, << >>) >>),
          PrintStmt(Call(Var(Id.B), << Num(1) >>)) >>,
       << ClassDecl(Id.C, << Method(S_init, << Id.a >>, << >>) >>),
          SubclassDecl(Id.D, Id.C, << >>),
          PrintStmt(Call(Var(Id.D), << Num(1) >>)),
          ExprStmt(Call(Var(Id.D), << >>)) >> >>

\* var n = 0; for (var i = 0; i < 2; i = i + 1) { n = n + i; } print n;
\* fun f() { var k = 0; for (;;) { k = k + 1; return k; } }
\*    print f(); var n = 5; for (n = 4; n < 4;) print n;
\* var n = 0; { var t = 7; for (; n < 2; n = n + 1)
\*                 for (var b = n; b < 1;) { var g = b; b = g + 1; } print t; }
ForSession ==
    << << VarDecl(Id.n, Num(0)),
          For(VarDecl(Id.i, Num(0)), Binary(Var(Id.i), "<", Num(2)),
              Assign(Id.i, Binary(Var(Id.i), "+", Num(1))),
              Block(<< ExprStmt(Assign(Id.n, Binary(Var(Id.n), "+", Var(Id.i)))) >>)),
          PrintStmt(Var(Id.n)) >>,
       << FunDecl(Id.f, << >>,
             << VarDecl(Id.k, Num(0)),
                For(NoClause, NoClause, NoClause,
                    Block(<< ExprStmt(Assign(Id.k, Binary(Var(Id.k), "+", Num(1)))),
                             Return(Var(Id.k)) >>)) >>),
          PrintStmt(Call(Var(Id.f), << >>)),
          VarDecl(Id.n, Num(5)),
          For(ExprStmt(Assign(Id.n, Num(4))), Binary(Var(Id.n), "<", Num(4)), NoClause,
              PrintStmt(Var(Id.n))) >>,
       << VarDecl(Id.n, Num(0)),
          Block(<< VarDecl(Id.t, Num(7)),
                   For(NoClause, Binary(Var(Id.n), "<", Num(2)),
                       Assign(Id.n, Binary(Var(Id.n), "+", Num(1))),
                       For(VarDecl(Id.b, Var(Id.n)), Binary(Var(Id.b), "<", Num(1)),
                           NoClause,
                           Block(<< VarDecl(Id.g, Var(Id.b)),
                                    ExprStmt(Assign(Id.b,
                                                Binary(Var(Id.g), "+", Num(1)))) >>))),
                   PrintStmt(Var(Id.t)) >>) >> >>

Sessions ==
    << GlobalsSession, StringsSession, FieldsSession, InheritSession,
       ClosuresSession, ObjectsSession, InitSession, AddSession, CallSession,
       UpvaluesSession, AssignSession, PanicSession, InvokeSession,
       ConstructSession, ForSession >>


(***************************************************************************)
(* The state: the VM (the global vm of vm.c with the heap it points        *)
(* into), the session being typed and the lines of it already              *)
(* interpreted, and the history variable ghost (what the program has       *)
(* been told so far, in the language's own terms).                         *)
(***************************************************************************)
VARIABLES vm, session, fed, ghost

vars == <<vm, session, fed, ghost>>

\* the static storage of the process before main() runs
ZeroVM ==
    [heap |-> [o \in ObjIds |-> Free], objects |-> << >>,
     stack |-> [i \in 1 .. StackSlots |-> BOOL_VAL(FALSE)], stackTop |-> 0,
     frames |-> << >>, openUpvalues |-> NULL,
     globals |-> initTable, strings |-> initTable, initString |-> NULL,
     compilerRoots |-> << >>, grayStack |-> << >>, grayed |-> << >>,
     bytesAllocated |-> 0, nextGC |-> 0, leaked |-> 0,
     gcAt |-> 0, requests |-> 0, quarantine |-> {}, gcLog |-> [runs |-> 0, reach |-> {}, marked |-> {}, grayed |-> << >>,
                objects |-> {}, before |-> 0, threshold |-> 0, after |-> 0,
                freed |-> {}, kept |-> {},
                internedBefore |-> {}, interned |-> {}],
     status |-> "idle", result |-> "none", ub |-> FALSE, fault |-> "none",
     ret |-> 0,
     parser |-> [hadError |-> FALSE, panicMode |-> FALSE, events |-> << >>],
     stderr |-> << >>, trace |-> << >>, stdout |-> NIL_VAL, clock |-> 0,
     path |-> << >>,
     scanner |-> [source |-> << >>, start |-> 0, current |-> 0, line |-> 0],
     token |-> [type |-> "none", start |-> 0, length |-> 0, line |-> 0,
                message |-> ""]]

NoLast ==
    [op |-> "none", tracked |-> FALSE, shadowed |-> FALSE, ok |-> TRUE,
     value |-> NIL_VAL, expected |-> NIL_VAL]

Observed(op, tracked, shadowed, ok, value, expected) ==
    [op |-> op, tracked |-> tracked, shadowed |-> shadowed, ok |-> ok,
     value |-> IF ok THEN value ELSE NIL_VAL,
     expected |-> IF tracked THEN expected ELSE NIL_VAL]

\* defined: the globals declared so far, by name; fields: the fields set so
\* far, by instance and name; methods: the methods each class was given, by
\* class and name; inherited: <<subclass, name, closure>> for every method
\* INHERIT found in the superclass and the subclass has not overridden;
\* slotVar, upVar, varVal, cap: the captured local variables -- which
\* variable lives in a stack slot, which variable an upvalue stands for,
\* the value last assigned to it, and the <<variable, upvalue>> pairs
\* handed to closures; ctor: the initializer calls in progress, innermost
\* last, each with the depth of its frame and the instance it was started
\* for; arity: the number of parameters of each closure that was made a
\* method; compiled: the messages the latest compile() reported and the
\* function it returned; raised: the number of frames and of stack slots in
\* use when the latest instruction called runtimeError, zero when it did
\* not, with the line of its opcode; held: the objects that the latest
\* step had built itself when its collection started and that were
\* reachable from the roots then; refused: the names that OP_SET_GLOBAL
\* was given while no global of the name was defined; last: what the
\* latest instruction did.
NotRaised == [depth |-> 0, stackTop |-> 0, line |-> 0]

GhostInit ==
    [defined |-> << >>, fields |-> << >>, methods |-> << >>, inherited |-> {},
     slotVar |-> [i \in 1 .. StackSlots |-> 0], nextVar |-> 1,
     upVar |-> [o \in ObjIds |-> 0], varVal |-> << >>, cap |-> {},
     ctor |-> << >>, arity |-> [o \in ObjIds |-> 0],
     compiled |-> [errors |-> << >>, function |-> NULL, untouched |-> TRUE],
     raised |-> NotRaised, held |-> {}, refused |-> {}, last |-> NoLast]

Init ==
    /\ vm = [clox("initVM", ZeroVM, 0) EXCEPT !.ret = 0, !.requests = 0]
    /\ session \in 1 .. Len(Sessions)
    /\ fed = << >>
    /\ ghost = GhostInit

Running == vm.status = "running"

\* the opcode the dispatch loop is about to read
NextOp ==
    LET f == frame(vm) IN vm.heap[vm.heap[f.closure].function].code[f.ip + 1]

Chars(m, string) == m.heap[string].chars

\* the strings of the all-objects list
Strings(m) == {o \in Range(m.objects) : m.heap[o].type = "OBJ_STRING"}

\* The VM after a step that computed m1 from m0.  A wild access ends the
\* process where it stood; a run that leaves the modelled prefix is cut.
Finish(m0, m1) ==
    IF m1.status \in {"crashed", "bound"}
    THEN [m0 EXCEPT !.status = m1.status, !.fault = m1.fault]
    ELSE [m1 EXCEPT !.gcAt = 0, !.requests = 0, !.quarantine = {},
                    !.clock = 0, !.ret = 0,
                    !.status = IF m1.ret = "continue" THEN "running" ELSE "idle",
                    !.result = IF m1.ret = "continue" THEN "none" ELSE m1.ret]

\* The history after the same step: slots at or above the new stackTop
\* hold no variable any more.
Without(f, S) == [x \in DOMAIN f \ S |-> f[x]]

Settle(g1, m1, last) ==
    IF m1.status \in {"crashed", "bound"}
    THEN [ghost EXCEPT !.last = NoLast, !.raised = NotRaised, !.held = {}]
    ELSE LET freed == IF m1.gcLog.runs # vm.gcLog.runs THEN m1.gcLog.freed ELSE {}
         IN  [g1 EXCEPT
                !.last = last,
                !.held = IF m1.gcLog.runs # vm.gcLog.runs
                         THEN {o \in m1.gcLog.reach : ~Live(vm.heap, o)}
                         ELSE {},
                !.raised = IF vm.status = "running" /\ m1.stderr # vm.stderr
                           THEN [depth |-> Len(vm.frames), stackTop |-> vm.stackTop,
                                 line |-> vm.heap[vm.heap[frame(vm).closure].function]
                                            .lines[frame(vm).ip + 1]]
                           ELSE NotRaised,
                !.slotVar = [i \in 1 .. StackSlots |->
                                IF i > m1.stackTop THEN 0 ELSE g1.slotVar[i]],
                !.ctor = SelectSeq(@, LAMBDA x : x.depth <= Len(m1.frames)),
                !.fields = Without(@, {x \in DOMAIN @ : x[1] \in freed}),
                !.methods = Without(@, {x \in DOMAIN @ : x[1] \in freed}),
                !.inherited = {x \in @ : x[1] \notin freed}]

Step(m1, g1, last) ==
    /\ vm' = Finish(vm, m1)
    /\ ghost' = Settle(g1, m1, last)

\* the machine of the step that starts, after the opcode has been fetched
Fetched == READ_BYTE(vm)

\* the operands of the instruction, as the case reads them
Operand1 == READ_BYTE(Fetched).ret
Operand2 == READ_BYTE(READ_BYTE(Fetched)).ret
Constant1 == READ_CONSTANT(Fetched).ret
Name1 == Chars(vm, AS_OBJ(Constant1))

\* What interpret() shows of its compile(): the messages on stderr, the
\* function that the script's frame runs, NULL when run() is not entered,
\* and whether it left alone the stack, the frames, the globals and stdout.
ToldCompile(m1) ==
    [ghost EXCEPT !.compiled =
        [errors |-> m1.stderr,
         function |-> IF m1.ret = "continue" /\ m1.frames # << >>
                      THEN m1.heap[frame(m1).closure].function ELSE NULL,
         untouched |-> /\ m1.stackTop = vm.stackTop /\ m1.frames = vm.frames
                       /\ m1.globals = vm.globals /\ m1.stdout = vm.stdout]]

(***************************************************************************)
(* repl(): the next line goes to interpret().  A user may leave lines      *)
(* out but keeps their order.                                              *)
(***************************************************************************)
Interpret ==
    /\ vm.status = "idle"
    /\ Len(fed) < MaxLines
    /\ \E i \in 1 .. Len(Sessions[session]) :
          /\ IF fed = << >> THEN TRUE ELSE i > fed[Len(fed)]
          /\ \E m1 \in clox("step", vm, <<"interpret", Sessions[session][i]>>) :
                Step(m1, ToldCompile(m1), NoLast)
          /\ fed' = Append(fed, i)
    /\ UNCHANGED session

(***************************************************************************)
(* What the history records of the instruction that runs.  m1 is the       *)
(* machine its case leaves.                                                *)
(***************************************************************************)
ToldSetLocal ==
    LET var == ghost.slotVar[frame(vm).slots + Operand1 + 1]
    IN  IF var = 0 THEN ghost ELSE [ghost EXCEPT !.varVal[var] = peek(vm, 0)]

\* no global of the name was defined, by initVM or by the session
Undefined(name) == name \notin DOMAIN ghost.defined \cup {S_clock}

ToldDefineGlobal ==
    [ghost EXCEPT !.defined = (Name1 :> peek(vm, 0)) @@ @,
                  !.refused = @ \ {Name1}]

ToldSetGlobal(m1) ==
    IF m1.ret = "continue" THEN ToldDefineGlobal
    ELSE IF Undefined(Name1)
    THEN [ghost EXCEPT !.refused = @ \cup {Name1}]
    ELSE ghost

ToldSetUpvalue ==
    LET var == ghost.upVar[frameUpvalue(vm, Operand1)]
    IN  IF var = 0 THEN ghost ELSE [ghost EXCEPT !.varVal[var] = peek(vm, 0)]

ToldSetProperty(m1) ==
    IF m1.ret = "continue"
    THEN [ghost EXCEPT !.fields = (<<AS_OBJ(peek(vm, 1)), Name1>> :> peek(vm, 0)) @@ @]
    ELSE ghost

\* The history of OP_CLOSURE's captures of locals, from upvalue i on: the
\* operand pairs start at code[ip0 + 1].
RECURSIVE captured(_, _, _, _, _)
captured(g, m1, closure, ip0, i) ==
    IF i >= m1.heap[closure].upvalueCount THEN g
    ELSE LET code == vm.heap[vm.heap[frame(vm).closure].function].code
             isLocal == code[ip0 + 2 * i + 1]
             slot == frame(vm).slots + code[ip0 + 2 * i + 2]
             upvalue == m1.heap[closure].upvalues[i + 1]
             fresh == g.slotVar[slot + 1] = 0
             var == IF fresh THEN g.nextVar ELSE g.slotVar[slot + 1]
         IN  IF isLocal = 0 THEN captured(g, m1, closure, ip0, i + 1)
             ELSE captured(
                    [g EXCEPT !.slotVar[slot + 1] = var,
                              !.nextVar = IF fresh THEN @ + 1 ELSE @,
                              !.varVal = IF fresh THEN Append(@, m1.stack[slot + 1]) ELSE @,
                              !.upVar[upvalue] = var,
                              !.cap = @ \cup {<<var, upvalue>>}],
                    m1, closure, ip0, i + 1)

ToldClosure(m1) ==
    IF m1.status = "bound" THEN ghost
    ELSE captured(ghost, m1, AS_OBJ(peek(m1, 0)), frame(vm).ip + 2, 0)

ToldReturn ==
    [ghost EXCEPT !.slotVar = [i \in 1 .. StackSlots |->
                                  IF i > frame(vm).slots THEN 0 ELSE @[i]],
                  !.ctor = SelectSeq(@, LAMBDA x : x.depth < Len(vm.frames))]

\* Is the callee of the OP_CALL that runs a class that was given an init
\* method taking as many arguments as the call passes.
CallsInitializer ==
    LET callee == peek(vm, Operand1)
        key == <<AS_OBJ(callee), S_init>>
    IN  /\ IsObjType(vm, callee, "OBJ_CLASS")
        /\ key \in DOMAIN ghost.methods
        /\ ghost.arity[ghost.methods[key]] = Operand1
        /\ Len(vm.frames) < FRAMES_MAX

ToldCall(m1) ==
    IF CallsInitializer /\ m1.ret = "continue" /\ Len(m1.frames) > Len(vm.frames)
    THEN [ghost EXCEPT !.ctor = Append(@, [depth |-> Len(m1.frames),
                                           instance |-> m1.stack[frame(m1).slots + 1]])]
    ELSE ghost

\* the names and closures a method table holds
TableMethods(m, klass) ==
    LET table == m.heap[klass].methods IN
    {<<Chars(m, table.entries[i].key), table.entries[i].value>> :
        i \in {j \in 1 .. table.capacity : table.entries[j].key # NULL}}

ToldInherit(m1) ==
    LET superclass == AS_OBJ(peek(vm, 1))
        subclass == AS_OBJ(peek(vm, 0))
        fromSuper == {x \in DOMAIN ghost.methods : x[1] = superclass}
    IN  IF m1.ret # "continue" \/ m1.status = "crashed" THEN ghost
        ELSE [ghost EXCEPT
                !.inherited = @ \cup {<<subclass, x[1], x[2]>> :
                                        x \in TableMethods(vm, superclass)},
                !.methods = [x \in {<<subclass, y[2]>> : y \in fromSuper} |->
                                ghost.methods[<<superclass, x[2]>>]] @@ @]

ToldMethod ==
    LET closure == AS_OBJ(peek(vm, 0))
        klass == AS_OBJ(peek(vm, 1))
    IN  [ghost EXCEPT
           !.methods = (<<klass, Name1>> :> closure) @@ @,
           !.arity[closure] = vm.heap[vm.heap[closure].function].arity,
           !.inherited = {x \in @ : ~(x[1] = klass /\ x[2] = Name1)}]

Told(m1) ==
    CASE NextOp = OP_SET_LOCAL     -> ToldSetLocal
      [] NextOp = OP_DEFINE_GLOBAL -> ToldDefineGlobal
      [] NextOp = OP_SET_GLOBAL    -> ToldSetGlobal(m1)
      [] NextOp = OP_SET_UPVALUE   -> ToldSetUpvalue
      [] NextOp = OP_SET_PROPERTY  -> ToldSetProperty(m1)
      [] NextOp = OP_CLOSURE       -> ToldClosure(m1)
      [] NextOp = OP_RETURN        -> ToldReturn
      [] NextOp = OP_CALL          -> ToldCall(m1)
      [] NextOp = OP_INHERIT       -> ToldInherit(m1)
      [] NextOp = OP_METHOD        -> ToldMethod
      [] OTHER                     -> ghost

SeenGetGlobal(m1) ==
    Observed("GET_GLOBAL", Name1 \in DOMAIN ghost.defined, FALSE,
             m1.ret = "continue", peek(m1, 0), ghost.defined[Name1])

SeenSetGlobal(m1) ==
    Observed("SET_GLOBAL", Name1 \in DOMAIN ghost.defined, FALSE,
             m1.ret = "continue", NIL_VAL, NIL_VAL)

\* the globals table as the set of its <<name, value>> pairs
GlobalsByName(m) ==
    {<<Chars(m, m.globals.entries[i].key), m.globals.entries[i].value>> :
        i \in {j \in 1 .. m.globals.capacity : m.globals.entries[j].key # NULL}}

\* OP_SET_GLOBAL of a name that no global has: does it raise the runtime
\* error and leave the table without the name and with every other global
\* as it was.  tracked: the name was refused before.
SeenSetUndefined(m1) ==
    Observed("SET_UNDEFINED", Name1 \in ghost.refused, FALSE,
             /\ m1.ret = "INTERPRET_RUNTIME_ERROR"
             /\ m1.stderr = Append(vm.stderr, "Undefined variable '%s'.")
             /\ GlobalsByName(m1) = GlobalsByName(vm)
             /\ \A x \in GlobalsByName(m1) : x[1] # Name1,
             NIL_VAL, NIL_VAL)

\* OP_GET_GLOBAL of a name that no global has: does it raise the runtime
\* error.  tracked: an assignment to the name was refused before.
SeenGetUndefined(m1) ==
    Observed("GET_UNDEFINED", Name1 \in ghost.refused, FALSE,
             /\ m1.ret = "INTERPRET_RUNTIME_ERROR"
             /\ m1.stderr = Append(vm.stderr, "Undefined variable '%s'."),
             NIL_VAL, NIL_VAL)

SeenGetUpvalue(m1) ==
    LET var == ghost.upVar[frameUpvalue(vm, Operand1)]
    IN  Observed("GET_UPVALUE", var # 0, FALSE, TRUE, peek(m1, 0), ghost.varVal[var])

SeenGetProperty(m1) ==
    LET receiver == peek(vm, 0)
        instance == AS_OBJ(receiver)
        tracked == /\ IsObjType(vm, receiver, "OBJ_INSTANCE")
                   /\ <<instance, Name1>> \in DOMAIN ghost.fields
        shadowed == tracked
                    /\ <<vm.heap[instance].klass, Name1>> \in DOMAIN ghost.methods
    IN  Observed("GET_PROPERTY", tracked, shadowed, m1.ret = "continue",
                 peek(m1, 0), ghost.fields[<<instance, Name1>>])

SeenEqual(m1) ==
    LET b == peek(vm, 0)
        a == peek(vm, 1)
    IN  Observed("EQUAL",
                 IsObjType(vm, a, "OBJ_STRING") /\ IsObjType(vm, b, "OBJ_STRING"),
                 FALSE, TRUE, peek(m1, 0),
                 BOOL_VAL(Chars(vm, AS_OBJ(a)) = Chars(vm, AS_OBJ(b))))

\* the operands of OP_INVOKE and OP_SUPER_INVOKE: a name, then a count
ArgCount2 == READ_BYTE(READ_STRING(Fetched)).ret

SeenInvoke(m1) ==
    LET receiver == peek(vm, ArgCount2)
        instance == AS_OBJ(receiver)
        tracked == /\ IsObjType(vm, receiver, "OBJ_INSTANCE")
                   /\ <<instance, Name1>> \in DOMAIN ghost.fields
                   /\ IsObjType(vm, ghost.fields[<<instance, Name1>>], "OBJ_CLOSURE")
        shadowed == tracked
                    /\ <<vm.heap[instance].klass, Name1>> \in DOMAIN ghost.methods
    IN  Observed("INVOKE", tracked, shadowed,
                 m1.ret = "continue" /\ Len(m1.frames) > Len(vm.frames),
                 OBJ_VAL(frame(m1).closure),
                 ghost.fields[<<instance, Name1>>])

SeenSuperInvoke(m1) ==
    LET superclass == AS_OBJ(peek(vm, 0))
        receiver == peek(vm, ArgCount2 + 1)
    IN  Observed("SUPER_INVOKE", <<superclass, Name1>> \in DOMAIN ghost.methods,
                 FALSE,
                 /\ m1.ret = "continue"
                 /\ m1.stack[frame(m1).slots + 1] = receiver,
                 OBJ_VAL(frame(m1).closure),
                 OBJ_VAL(ghost.methods[<<superclass, Name1>>]))

SeenInherit(m1) ==
    LET superclass == AS_OBJ(peek(vm, 1))
        ok == m1.ret = "continue"
    IN  Observed("INHERIT", ok, FALSE,
                 ok /\ m1.heap[superclass].methods = vm.heap[superclass].methods,
                 NIL_VAL, NIL_VAL)

\* A call of a class with an initializer: does it enter the initializer
\* with a new instance of the class in slot zero.
SeenCallClass(m1) ==
    LET klass == AS_OBJ(peek(vm, Operand1))
        receiver == m1.stack[frame(m1).slots + 1]
    IN  Observed("CALL", CallsInitializer, FALSE,
                 /\ CallsInitializer
                 /\ m1.ret = "continue"
                 /\ Len(m1.frames) = Len(vm.frames) + 1
                 /\ frame(m1).closure = ghost.methods[<<klass, S_init>>]
                 /\ IsObjType(m1, receiver, "OBJ_INSTANCE")
                 /\ m1.heap[AS_OBJ(receiver)].klass = klass
                 /\ AS_OBJ(receiver) \notin Range(vm.objects),
                 NIL_VAL, NIL_VAL)

\* A call of a closure.  value is what the call did -- whether it pushed
\* a frame, and what it wrote to stderr -- and expected what the number of
\* arguments and of frames in use call for; ok says that a frame that was
\* pushed is the callee's, starts at its first byte and has its base at
\* the callee's slot, and that run() returned if none was pushed.
SeenCallClosure(m1) ==
    LET argCount == Operand1
        callee == AS_OBJ(peek(vm, argCount))
        arity == vm.heap[vm.heap[callee].function].arity
        pushed == Len(m1.frames) = Len(vm.frames) + 1
    IN  Observed("CALL_CLOSURE", TRUE, FALSE,
                 IF pushed
                 THEN /\ m1.ret = "continue"
                      /\ frame(m1) = [closure |-> callee, ip |-> 0,
                                      slots |-> vm.stackTop - argCount - 1]
                      /\ m1.stackTop = vm.stackTop
                 ELSE m1.ret = "INTERPRET_RUNTIME_ERROR" /\ m1.frames = << >>,
                 [pushed |-> pushed, stderr |-> m1.stderr],
                 [pushed |-> argCount = arity /\ Len(vm.frames) < 64,
                  stderr |-> IF argCount # arity
                             THEN <<expectedArguments(arity, argCount)>>
                             ELSE IF Len(vm.frames) >= 64 THEN <<"Stack overflow.">>
                             ELSE << >>])

SeenCall(m1) ==
    IF IsObjType(vm, peek(vm, Operand1), "OBJ_CLOSURE") THEN SeenCallClosure(m1)
    ELSE SeenCallClass(m1)

\* The OP_RETURN that ends an initializer call: what it leaves on the
\* stack as the value of the call.
SeenReturn(m1) ==
    LET tracked == /\ ghost.ctor # << >>
                   /\ ghost.ctor[Len(ghost.ctor)].depth = Len(vm.frames)
    IN  Observed("RETURN", tracked, FALSE, m1.ret = "continue",
                 peek(m1, 0), ghost.ctor[Len(ghost.ctor)].instance)

\* OP_ADD of two numbers or of two strings: what it pushes, a number as it
\* is and a string by its characters, against the sum or the concatenation.
AddsAlike ==
    LET b == peek(vm, 0)
        a == peek(vm, 1)
    IN  \/ IS_NUMBER(a) /\ IS_NUMBER(b)
        \/ IsObjType(vm, a, "OBJ_STRING") /\ IsObjType(vm, b, "OBJ_STRING")

Shown(m, value) ==
    IF IsObjType(m, value, "OBJ_STRING") THEN Chars(m, AS_OBJ(value))
    ELSE IF IS_NUMBER(value) THEN <<value.as>> ELSE <<"other">>

SeenAdd(m1) ==
    LET b == peek(vm, 0)
        a == peek(vm, 1)
    IN  IF AddsAlike
        THEN Observed("ADD", TRUE, FALSE,
                      m1.ret = "continue" /\ m1.stackTop = vm.stackTop - 1,
                      Shown(m1, peek(m1, 0)),
                      IF IS_NUMBER(a) THEN <<a.as + b.as>>
                      ELSE Chars(vm, AS_OBJ(a)) \o Chars(vm, AS_OBJ(b)))
        ELSE Observed("ADD_MISMATCH", TRUE, FALSE,
                      /\ m1.ret = "INTERPRET_RUNTIME_ERROR"
                      /\ m1.stderr = <<"Operands must be two numbers or two strings.">>,
                      m1.stdout, vm.stdout)

\* OP_CLASS: is the value it pushed a class whose method table is an
\* initialised empty table, in which tableGet finds no name
SeenClass(m1) ==
    LET klass == AS_OBJ(peek(m1, 0))
        methods == m1.heap[klass].methods
    IN  Observed("CLASS", TRUE, FALSE,
                 /\ IsObjType(m1, peek(m1, 0), "OBJ_CLASS")
                 /\ methods = initTable
                 /\ \A k \in Strings(m1) : ~tableGetPure(m1.heap, methods, k).found,
                 peek(m1, 0), peek(m1, 0))

Seen(m1) ==
    CASE NextOp = OP_GET_GLOBAL   -> IF Undefined(Name1)
                                     THEN SeenGetUndefined(m1) ELSE SeenGetGlobal(m1)
      [] NextOp = OP_SET_GLOBAL   -> IF Undefined(Name1)
                                     THEN SeenSetUndefined(m1) ELSE SeenSetGlobal(m1)
      [] NextOp = OP_GET_UPVALUE  -> SeenGetUpvalue(m1)
      [] NextOp = OP_GET_PROPERTY -> SeenGetProperty(m1)
      [] NextOp = OP_EQUAL        -> SeenEqual(m1)
      [] NextOp = OP_INVOKE       -> SeenInvoke(m1)
      [] NextOp = OP_SUPER_INVOKE -> SeenSuperInvoke(m1)
      [] NextOp = OP_INHERIT      -> SeenInherit(m1)
      [] NextOp = OP_CALL         -> SeenCall(m1)
      [] NextOp = OP_RETURN       -> SeenReturn(m1)
      [] NextOp = OP_ADD          -> SeenAdd(m1)
      [] NextOp = OP_CLASS        -> SeenClass(m1)
      [] OTHER                    -> NoLast

Record(m1) == Step(m1, Told(m1), Seen(m1))

(***************************************************************************)
(* run(): one turn of its loop.  zeroed is what malloc hands to newClass   *)
(* and clock what clock() reads.                                           *)
(***************************************************************************)
Run ==
    /\ vm.status = "running"
    /\ \E zeroed \in IF NextOp = OP_CLASS THEN BOOLEAN ELSE {TRUE},
          clock \in IF NextOp = OP_CALL THEN 0 .. 1 ELSE {0} :
         \E m1 \in clox("step", [vm EXCEPT !.clock = clock], <<"run", zeroed>>) :
            Record(m1)
    /\ UNCHANGED <<session, fed>>

Next == Interpret \/ Run

Spec == Init /\ [][Next]_vars

(***************************************************************************)
(* A session of one line whose calls nest as deep as the frames allow:     *)
(* a function of arity parameters that calls itself.  vm.stack is          *)
(* modelled whole and run() is followed from its start to its return.      *)
(***************************************************************************)
Parameters == [i \in 1 .. UINT8_MAX |-> <<112, i>>]

\* The arities tried: the fewest and the most a function may have.
Arities == 0 .. 7 \cup {UINT8_MAX}

\* fun f(p1, ..., pn) { return f(p1, ..., pn); } f(nil, ..., nil);
DeepLine(arity) ==
    << FunDecl(Id.f, SubSeq(Parameters, 1, arity),
               << Return(Call(Var(Id.f), [i \in 1 .. arity |-> Var(Parameters[i])])) >>),
       ExprStmt(Call(Var(Id.f), [i \in 1 .. arity |-> Lit("nil")])) >>

DeepInit ==
    /\ vm = [clox("initVM", ZeroVM, 0)
                EXCEPT !.ret = 0, !.requests = 0,
                       !.stack = [i \in 1 .. STACK_MAX |-> BOOL_VAL(FALSE)]]
    /\ session = 0
    /\ fed = << >>
    /\ ghost = GhostInit

DeepInterpret ==
    /\ vm.status = "idle" /\ fed = << >>
    /\ \E arity \in Arities :
         \E m1 \in clox("step", vm, <<"interpret", DeepLine(arity)>>) :
            /\ vm' = Finish(vm, m1)
            /\ fed' = <<arity>>
    /\ UNCHANGED <<session, ghost>>

DeepRun ==
    /\ vm.status = "running"
    /\ \E m1 \in clox("step", vm, <<"turns", TRUE>>) : vm' = Finish(vm, m1)
    /\ UNCHANGED <<session, fed, ghost>>

DeepNext == DeepInterpret \/ DeepRun

DeepSpec == DeepInit /\ [][DeepNext]_vars

(***************************************************************************)
(* The scanner alone: compile() gives it a source text and the parser      *)
(* asks it for one token after another.  The texts are words, alone or     *)
(* two on a line: the reserved words, words that differ from one by a      *)
(* letter, and every word of up to MaxWord of the letters WordLetters.     *)
(***************************************************************************)
\* a e f g l n o r s u
WordLetters == {97, 101, 102, 103, 108, 110, 111, 114, 115, 117}

\* ealse elsee els egos eg falsey fo nill supar thi x9 _e E e1
NearWords ==
    { <<101, 97, 108, 115, 101>>, <<101, 108, 115, 101, 101>>, <<101, 108, 115>>,
      <<101, 103, 111, 115>>, <<101, 103>>, <<102, 97, 108, 115, 101, 121>>,
      <<102, 111>>, <<110, 105, 108, 108>>, <<115, 117, 112, 97, 114>>,
      <<116, 104, 105>>, <<120, 57>>, <<95, 101>>, <<69>>, <<101, 49>> }

Words ==
    Range(ReservedWords) \cup NearWords
    \cup UNION {[1 .. n -> WordLetters] : n \in 1 .. MaxWord}

Sources ==
    Words \cup {w \o <<Ascii.space>> \o ReservedWords.TOKEN_EGO : w \in NearWords}

ScanInit ==
    /\ vm = [clox("initVM", ZeroVM, 0) EXCEPT !.ret = 0, !.requests = 0]
    /\ session = 0
    /\ fed = << >>
    /\ ghost = GhostInit

\* compile(source) up to its first advance()
ScanStart ==
    /\ fed = << >>
    /\ \E source \in Sources : vm' = [vm EXCEPT !.scanner = initScanner(source)]
    /\ fed' = <<1>>
    /\ UNCHANGED <<session, ghost>>

\* parser.current = scanToken()
ScanToken ==
    /\ fed = <<1>>
    /\ vm.token.type # "TOKEN_EOF"
    /\ LET scanned == scannerScanToken(vm.scanner)
       IN  vm' = [vm EXCEPT !.scanner = scanned[1], !.token = scanned[2]]
    /\ UNCHANGED <<session, fed, ghost>>

ScanNext == ScanStart \/ ScanToken

ScanSpec == ScanInit /\ [][ScanNext]_vars

(***************************************************************************)
(* memory.c: reallocate() under requests of any size, in the build         *)
(* without DEBUG_STRESS_GC.  The VM interprets one line, whose function    *)
(* and closure it holds no more when the line is over, and the requests    *)
(* follow.  fed[i] is the size of the i-th block that the requests are     *)
(* about, 0 before it is allocated and after it is freed.                  *)
(***************************************************************************)
BlockSizes == {k * (256 * 1024) : k \in 0 .. MaxUnits}

\* the sessions whose first line stands for the program so far
AllocSessions == {1, 2, 5, 10, 15}

AllocInit ==
    /\ vm = [clox("initVM", ZeroVM, 0) EXCEPT !.ret = 0, !.requests = 0]
    /\ session \in AllocSessions
    /\ fed = [i \in 1 .. MaxBlocks |-> 0]
    /\ ghost = GhostInit

\* the line goes to interpret()
AllocInterpret ==
    /\ vm.status = "idle" /\ vm.result = "none"
    /\ \E m1 \in {clox("interpret", [vm EXCEPT !.gcAt = -1], Sessions[session][1])} :
          Step(m1, ToldCompile(m1), NoLast)
    /\ UNCHANGED <<session, fed>>

\* run(): one turn of its loop
AllocRun ==
    /\ vm.status = "running"
    /\ \E m1 \in {clox("run", [vm EXCEPT !.gcAt = -1], TRUE)} : Record(m1)
    /\ UNCHANGED <<session, fed>>

\* reallocate(block i, fed[i], newSize)
Request(i, newSize) ==
    /\ vm.status = "idle" /\ vm.result # "none"
    /\ \E m1 \in {clox("reallocate", [vm EXCEPT !.gcAt = -1], <<fed[i], newSize>>)} :
          vm' = [m1 EXCEPT !.gcAt = 0, !.requests = 0, !.quarantine = {}]
    /\ fed' = [fed EXCEPT ![i] = newSize]
    /\ UNCHANGED <<session, ghost>>

\* ALLOCATE and a GROW_ARRAY that grows
AllocGrow ==
    \E i \in 1 .. MaxBlocks, newSize \in BlockSizes :
       newSize > fed[i] /\ Request(i, newSize)

\* FREE, FREE_ARRAY and a request for less
AllocShrink ==
    \E i \in 1 .. MaxBlocks, newSize \in BlockSizes :
       newSize < fed[i] /\ Request(i, newSize)

AllocNext == AllocInterpret \/ AllocRun \/ AllocGrow \/ AllocShrink

AllocSpec == AllocInit /\ [][AllocNext]_vars

TypeOK == vm.status \in {"idle", "running", "crashed", "bound"}

(***************************************************************************)
(* The properties.  gcLog describes the latest collection, ghost.last the  *)
(* latest instruction, ghost the history of the session.                   *)
(***************************************************************************)
Collected == vm.gcLog.runs > 0

\* the closures a method table holds under the name (a sequence of
\* characters)
MethodNamed(m, klass, name) ==
    {x[2] : x \in {y \in TableMethods(m, klass) : y[1] = name}}

\* C1: after a collection, started at whichever allocation, every object
\* that was reachable from the roots (stack slots, frame closures, open
\* upvalues, globals, compiler functions, the init string) when it started
\* is still linked in the all-objects list: none was freed.
C1_ReachableKept ==
    Collected => /\ vm.gcLog.reach \subseteq vm.gcLog.kept
                 /\ vm.gcLog.reach \cap vm.gcLog.freed = {}

\* a collection freed something and kept an object that a global holds
C1_Witness ==
    /\ Collected
    /\ vm.gcLog.freed # {}
    /\ \E o \in TableRefs(vm.globals) : o \in vm.gcLog.reach /\ o \in vm.gcLog.kept

\* C2: two strings compare equal under == exactly when their characters
\* are equal, and no two live strings have the same characters.
C2_StringEquality ==
    /\ ghost.last.op = "EQUAL" /\ ghost.last.tracked
          => ghost.last.value = ghost.last.expected
    /\ \A a, b \in Range(vm.objects) :
          /\ vm.heap[a].type = "OBJ_STRING"
          /\ vm.heap[b].type = "OBJ_STRING"
          /\ vm.heap[a].chars = vm.heap[b].chars
          => a = b

\* C3: the closures that captured one local variable share one upvalue,
\* and a read through any of them yields the value last written to the
\* variable, while it is on the stack and after its scope has ended.
C3_OneCell ==
    /\ \A x, y \in ghost.cap : x[1] = y[1] => x[2] = y[2]
    /\ ghost.last.op = "GET_UPVALUE" /\ ghost.last.tracked
          => ghost.last.value = ghost.last.expected

\* C4: when interpret() returns INTERPRET_OK the value stack is empty and
\* no call frame is left.
C4_StackEmpty ==
    vm.status = "idle" /\ vm.result = "INTERPRET_OK"
       => vm.stackTop = 0 /\ Len(vm.frames) = 0

\* interpret() has returned INTERPRET_OK for a line with expression
\* statements (a = 2; in the first line of the globals session)
C4_Witness ==
    /\ vm.status = "idle" /\ vm.result = "INTERPRET_OK"
    /\ session = 1 /\ fed = <<1>>
    /\ vm.stackTop = 0

\* C5: after a collection every object still linked in the all-objects
\* list was reachable from the roots when the collection started: the
\* sweep unlinked every unreachable one.
C5_KeptReachable ==
    Collected => vm.gcLog.kept \subseteq vm.gcLog.reach

\* a collection met unreachable objects, and what it kept is what was
\* reachable
C5_Witness ==
    /\ Collected
    /\ vm.gcLog.freed # {}
    /\ vm.gcLog.kept = vm.gcLog.reach

\* C6: OP_GET_GLOBAL of a name yields the value that the latest
\* OP_DEFINE_GLOBAL or assignment gave it, whatever other globals exist.
C6_GlobalRoundTrip ==
    ghost.last.op = "GET_GLOBAL" /\ ghost.last.tracked
       => ghost.last.ok /\ ghost.last.value = ghost.last.expected

\* C7: OP_GET_PROPERTY of a field yields the value that the latest
\* OP_SET_PROPERTY wrote to that field of that instance, whatever other
\* fields the instance has.
C7_FieldRoundTrip ==
    ghost.last.op = "GET_PROPERTY" /\ ghost.last.tracked
       => ghost.last.ok /\ ghost.last.value = ghost.last.expected

\* C8: when an instance has a field and its class a method of one name,
\* OP_GET_PROPERTY yields the field's value and OP_INVOKE calls it.
C8_FieldShadowsMethod ==
    ghost.last.op \in {"GET_PROPERTY", "INVOKE"} /\ ghost.last.shadowed
       => ghost.last.ok /\ ghost.last.value = ghost.last.expected

\* C9: OP_INHERIT leaves the superclass's method table as it was, and the
\* subclass finds, under every method name the superclass had, the same
\* closure for as long as it does not define a method of that name itself.
C9_InheritCopies ==
    /\ ghost.last.op = "INHERIT" /\ ghost.last.tracked => ghost.last.ok
    /\ \A x \in ghost.inherited : MethodNamed(vm, x[1], x[2]) = {x[3]}

\* C10: super.m(args) calls the closure that the superclass was given
\* under the name m, with the receiver in slot zero of the new frame.
C10_SuperInvoke ==
    ghost.last.op = "SUPER_INVOKE" /\ ghost.last.tracked
       => ghost.last.ok /\ ghost.last.value = ghost.last.expected

\* C11: a call of a class that has an initializer enters the initializer
\* with a new instance of the class in slot zero, and the OP_RETURN that
\* ends the initializer, a bare return included, leaves that instance as
\* the value of the call.
C11_InitYieldsInstance ==
    /\ ghost.last.op = "CALL" /\ ghost.last.tracked => ghost.last.ok
    /\ ghost.last.op = "RETURN" /\ ghost.last.tracked
          => ghost.last.ok /\ ghost.last.value = ghost.last.expected
\* the line that the latest interpret() was given
Line == Sessions[session][fed[Len(fed)]]

\* the return statements that stand directly in the body of a method init
InitReturns(source) ==
    UNION {UNION {Range(source[i].methods[j].body) :
                    j \in {n \in DOMAIN source[i].methods :
                             source[i].methods[n].name = S_init}} :
           i \in {n \in DOMAIN source : source[n].k = "class"}}

ScriptReturn(source) == \E d \in Range(source) : d.k = "return"
InitReturnsValue(source) ==
    \E d \in InitReturns(source) : d.k = "return" /\ d.hasValue
InitReturnsBare(source) ==
    \E d \in InitReturns(source) : d.k = "return" /\ ~d.hasValue

ReturnErrors ==
    {"Can't return from top-level code.", "Can't return a value from an initializer."}

\* C12: compile() reports "Can't return from top-level code." for a line
\* with a return statement at script level and "Can't return a value from
\* an initializer." for a line with a return of a value in the body of an
\* init method, and interpret() answers INTERPRET_COMPILE_ERROR; a line
\* whose only return is a bare one in an init method gets neither message.
C12_ReturnErrors ==
    fed # << >> =>
       /\ ScriptReturn(Line) =>
             /\ "Can't return from top-level code." \in Range(ghost.compiled.errors)
             /\ ghost.compiled.function = NULL
       /\ InitReturnsValue(Line) =>
             /\ "Can't return a value from an initializer."
                   \in Range(ghost.compiled.errors)
             /\ ghost.compiled.function = NULL
       /\ ~ScriptReturn(Line) /\ ~InitReturnsValue(Line) =>
             Range(ghost.compiled.errors) \cap ReturnErrors = {}

\* the first line of the initializer session, with a bare return in init,
\* was compiled and run (it printed the field that init set), and the
\* second, with return 1; in init, was refused
C12_Witness ==
    /\ session = 7 /\ fed = <<1, 2>>
    /\ InitReturnsBare(Sessions[7][1]) /\ vm.stdout = NUMBER_VAL(3)
    /\ InitReturnsValue(Line)
    /\ vm.status = "idle" /\ vm.result = "INTERPRET_COMPILE_ERROR"
    /\ ghost.compiled.errors = <<"Can't return a value from an initializer.">>
\* C13: OP_ADD replaces two numbers by their sum and two strings by a
\* string of their characters, the first operand's first; for any other
\* pair of operands it writes "Operands must be two numbers or two
\* strings.", interpret() returns INTERPRET_RUNTIME_ERROR and what was
\* printed before stays printed.
C13_Add ==
    /\ ghost.last.op = "ADD"
          => ghost.last.ok /\ ghost.last.value = ghost.last.expected
    /\ ghost.last.op = "ADD_MISMATCH"
          => /\ ghost.last.ok /\ ghost.last.value = ghost.last.expected
             /\ vm.status = "idle" /\ vm.result = "INTERPRET_RUNTIME_ERROR"

\* 1 + "a" has failed after "a" + "b" was printed
C13_Witness ==
    /\ session = 8 /\ fed = <<1>>
    /\ ghost.last.op = "ADD_MISMATCH" /\ ghost.last.ok
    /\ vm.result = "INTERPRET_RUNTIME_ERROR"
    /\ Shown(vm, vm.stdout) = Id.ab
\* C14: an instruction that calls runtimeError, in whichever frame, ends
\* interpret() with INTERPRET_RUNTIME_ERROR, and whenever interpret() has
\* returned that result the value stack is empty and no call frame is left.
C14_ErrorResetsStack ==
    /\ ghost.raised.depth > 0
          => vm.status = "idle" /\ vm.result = "INTERPRET_RUNTIME_ERROR"
    /\ vm.status = "idle" /\ vm.result = "INTERPRET_RUNTIME_ERROR"
          => vm.stackTop = 0 /\ Len(vm.frames) = 0

\* true + n failed in f, called from g, called from the script, with the
\* stack holding the three callees, a local and the operands
C14_Witness ==
    /\ ghost.raised.depth = 3 /\ ghost.raised.stackTop > 3
    /\ vm.status = "idle" /\ vm.result = "INTERPRET_RUNTIME_ERROR"
    /\ vm.stackTop = 0 /\ Len(vm.frames) = 0
\* C15: interpret() gets a function from compile() exactly when compile()
\* reported no error; parser.hadError is still set when compile() ends
\* after a report, and interpret() then returns INTERPRET_COMPILE_ERROR
\* with the stack, the frames, the globals and the output as they were.
C15_CompileError ==
    fed # << >> =>
       /\ ghost.compiled.errors = << >> <=> ghost.compiled.function # NULL
       /\ vm.parser.hadError <=> ghost.compiled.errors # << >>
       /\ ghost.compiled.errors # << >>
             => /\ vm.status = "idle" /\ vm.result = "INTERPRET_COMPILE_ERROR"
                /\ ghost.compiled.untouched

\* a second line was refused by compile() and left the globals of the
\* first line in place
C15_Witness ==
    /\ Len(fed) = 2
    /\ ghost.compiled.errors # << >> /\ ghost.compiled.function = NULL
    /\ vm.parser.hadError
    /\ vm.result = "INTERPRET_COMPILE_ERROR"
    /\ ghost.compiled.untouched /\ vm.globals.count > 1
\* C16: OP_CALL of a closure pushes a frame, with its base at the callee's
\* slot, exactly when the number of arguments is the function's arity and
\* fewer than 64 frames are in use; with another number of arguments it
\* reports "Expected N arguments but got M." (N the arity, M the number
\* passed), with 64 frames in use "Stack overflow.", and pushes no frame;
\* there are never more than 64 frames.
C16_Call ==
    /\ ghost.last.op = "CALL_CLOSURE"
          => ghost.last.ok /\ ghost.last.value = ghost.last.expected
    /\ Len(vm.frames) <= 64

\* the call of f with 64 frames in use was refused
C16_Witness ==
    /\ ghost.last.op = "CALL_CLOSURE" /\ ghost.last.ok
    /\ ghost.raised.depth = 64
    /\ ghost.last.value = [pushed |-> FALSE, stderr |-> <<"Stack overflow.">>]
\* C17: when a collection ends, every key of vm.strings is a string that
\* was reachable when it started and is still allocated, none is a string
\* the collection freed, and every reachable string that had an entry
\* still has it.
C17_NoStaleInterned ==
    Collected =>
       /\ vm.gcLog.interned \subseteq vm.gcLog.reach \cap vm.gcLog.kept
       /\ vm.gcLog.interned \cap vm.gcLog.freed = {}
       /\ vm.gcLog.internedBefore \cap vm.gcLog.reach \subseteq vm.gcLog.interned

\* a collection took the entries of unreachable strings out of vm.strings
\* and left those of reachable ones
C17_Witness ==
    /\ Collected
    /\ vm.gcLog.internedBefore \cap vm.gcLog.freed # {}
    /\ vm.gcLog.interned # {}
    /\ vm.gcLog.interned \subseteq vm.gcLog.reach
\* is a sequence of numbers in ascending order
Ascending(seq) == \A i \in 1 .. Len(seq) - 1 : seq[i] <= seq[i + 1]

\* C18: every chunk has one line for each byte of its code, the lines
\* ascend as the source was read, and the trace of a runtime error has one
\* entry for each frame, the innermost with the line that was current when
\* the opcode of the failing instruction was written.
C18_LineTable ==
    /\ \A o \in Range(vm.objects) :
          vm.heap[o].type = "OBJ_FUNCTION"
             => /\ Len(vm.heap[o].lines) = Len(vm.heap[o].code)
                /\ Ascending(vm.heap[o].lines)
                /\ \A i \in DOMAIN vm.heap[o].lines : vm.heap[o].lines[i] >= 1
    /\ ghost.raised.depth > 0
          => /\ Len(vm.trace) = ghost.raised.depth
             /\ vm.trace[1].line = ghost.raised.line

\* true + n failed in f, on the first line, called from g, on the second,
\* called from the fourth declaration of the script
C18_Witness ==
    /\ session = 8 /\ fed = <<3>>
    /\ ghost.raised.depth = 3
    /\ vm.trace = << [line |-> 1, name |-> Id.f], [line |-> 2, name |-> Id.g],
                     [line |-> 4, name |-> << >>] >>
\* the upvalues that have been closed, and the slots of those in the open
\* list
ClosedUpvalues(m) ==
    {o \in Range(m.objects) :
        m.heap[o].type = "OBJ_UPVALUE" /\ m.heap[o].location = -1}
OpenSlots(m) ==
    {m.heap[o].location : o \in openUpvalueIds(m.heap, m.openUpvalues)}

\* C19: from any state the VM reaches and for any threshold up to the
\* first slot above the stack top, closeUpvalues leaves every closed upvalue as it is, a second
\* closeUpvalues with the same threshold changes nothing, and with a
\* threshold above the slot of every open upvalue closeUpvalues changes
\* nothing at all.
C19_CloseIdempotent ==
    vm.status \in {"idle", "running"} =>
       \A last \in 0 .. vm.stackTop + 1 :
          LET m1 == closeUpvalues(vm, last) IN
          /\ \A o \in ClosedUpvalues(vm) : m1.heap[o] = vm.heap[o]
          /\ closeUpvalues(m1, last) = m1
          /\ (\A slot \in OpenSlots(vm) : slot < last) => m1 = vm

\* there are a closed upvalue and an open one: closeUpvalues closes the
\* open one with a threshold at its slot and not with one above it
C19_Witness ==
    /\ vm.status = "running"
    /\ ClosedUpvalues(vm) # {}
    /\ \E slot \in OpenSlots(vm) :
          /\ closeUpvalues(vm, slot) # vm
          /\ closeUpvalues(vm, slot + 1) = vm

\* The key of table stored under the characters name, as a set
KeysNamed(table, name) ==
    {k \in TableKeys(table) : Chars(vm, k) = name}

\* tableGet finds value under name in table
Retrieves(table, name, value) ==
    \E k \in KeysNamed(table, name) :
       tableGetPure(vm.heap, table, k) = [found |-> TRUE, value |-> value]

\* C20: after every instruction, tableGet on the globals table and on each
\* instance's field table finds each key under the value of the latest
\* tableSet that no tableDelete followed, and the globals table holds no
\* other key than those and the native clock; this through every growth of
\* the tables.
C20_TableRoundTrip ==
    vm.status \in {"idle", "running"} =>
       /\ \A name \in DOMAIN ghost.defined :
             Retrieves(vm.globals, name, ghost.defined[name])
       /\ \A x \in DOMAIN ghost.fields :
             Retrieves(vm.heap[x[1]].fields, x[2], ghost.fields[x])
       /\ \A k \in TableKeys(vm.globals) :
             Chars(vm, k) \in DOMAIN ghost.defined \cup {S_clock}

\* the objects a machine refers to: from the roots, as keys of the string
\* table and in the all-objects list
Referenced(m) == Reachable(m) \cup TableKeys(m.strings) \cup Range(m.objects)

\* C21: whichever allocation of a step collects, the step leaves no
\* reference to a freed object: everything reachable from the roots,
\* every key of the string table and every object of the all-objects list
\* is a live object of the list.  The same for initVM, whichever of its
\* allocations collects.
C21_TemporariesKept ==
    /\ vm.status \in {"idle", "running"} =>
          \A o \in Referenced(vm) : Live(vm.heap, o) /\ o \in Range(vm.objects)
    /\ fed = << >> =>
          \A m \in clox("step", ZeroVM, <<"initVM", 0>>) :
             \A o \in Referenced(m) : Live(m.heap, o) /\ o \in Range(m.objects)

\* a collection ran in the middle of a step, freed objects, and kept the
\* objects the step had built until then, which the step has linked since
C21_Witness ==
    /\ vm.gcLog.freed # {}
    /\ ghost.held # {}
    /\ ghost.held \subseteq Reachable(vm)
    /\ \E o \in ghost.held : vm.heap[o].type = "OBJ_STRING"
    /\ \E o \in ghost.held : vm.heap[o].type = "OBJ_FUNCTION"

\* the tables of a machine that hold entries under names: the globals, the
\* method tables of the classes and the field tables of the instances
NamedTables(m) ==
    {m.globals}
    \cup {m.heap[o].methods : o \in {c \in Range(m.objects) :
                                        /\ m.heap[c].type = "OBJ_CLASS"
                                        /\ ~IsIndeterminate(m.heap[c].methods)}}
    \cup {m.heap[o].fields : o \in {i \in Range(m.objects) :
                                        m.heap[i].type = "OBJ_INSTANCE"}}

\* C22: in every table, tableGet with a key string finds an entry only
\* when the table holds an entry whose key has the characters of that
\* string, and then yields the value of that entry: a string that differs
\* from every key of the table is reported absent, equal hashes or not.
C22_KeysApart ==
    vm.status \in {"idle", "running"} =>
       \A table \in NamedTables(vm), k \in Strings(vm) :
          LET got == tableGetPure(vm.heap, table, k) IN
          got.found =>
             \E i \in 1 .. table.capacity :
                /\ table.entries[i].key # NULL
                /\ Chars(vm, table.entries[i].key) = Chars(vm, k)
                /\ table.entries[i].value = got.value

\* the open-upvalue list from upvalue on, head first (at most n links)
RECURSIVE openList(_, _, _)
openList(heap, upvalue, n) ==
    IF upvalue = NULL \/ n = 0 THEN << >>
    ELSE <<upvalue>> \o openList(heap, heap[upvalue].next, n - 1)

OpenList(m) == openList(m.heap, m.openUpvalues, MaxObjects + 1)

\* the stack slots of the upvalues of a list, in the order of the list
Locations(m, list) == [i \in 1 .. Len(list) |-> m.heap[list[i]].location]

Descending(slots) ==
    \A i \in 1 .. Len(slots) - 1 : slots[i] > slots[i + 1]

\* C23: the open-upvalue list holds open upvalues in strictly descending
\* order of their stack slots (so at most one for a slot), and
\* captureUpvalue of any slot in use either returns the upvalue the list
\* has for the slot and changes nothing, or makes a new upvalue for the slot
\* and links it so that the list is the old one with the new upvalue at
\* its place in the order.
C23_OpenListSorted ==
    vm.status \in {"idle", "running"} =>
       LET list == OpenList(vm) IN
       /\ \A i \in 1 .. Len(list) :
             /\ vm.heap[list[i]].type = "OBJ_UPVALUE"
             /\ vm.heap[list[i]].location >= 0
       /\ Descending(Locations(vm, list))
       /\ \A local \in 0 .. vm.stackTop - 1 :
             LET m1 == captureUpvalue(vm, local)
                 list1 == OpenList(m1)
                 found == {u \in Range(list) : vm.heap[u].location = local}
             IN  m1.status # "bound" =>
                    IF found # {}
                    THEN /\ m1.ret \in found
                         /\ m1.heap = vm.heap
                         /\ list1 = list
                    ELSE /\ ~Live(vm.heap, m1.ret)
                         /\ m1.heap[m1.ret].type = "OBJ_UPVALUE"
                         /\ m1.heap[m1.ret].location = local
                         /\ Descending(Locations(m1, list1))
                         /\ SelectSeq(list1, LAMBDA u : u # m1.ret) = list
                         /\ Len(list1) = Len(list) + 1

\* two closures hold one open upvalue (the second capture of the slot
\* reused it) and the list has three upvalues, the one for the middle slot
\* made last
C23_Witness ==
    /\ vm.status = "running"
    /\ Len(OpenList(vm)) = 3
    /\ \A u \in Range(OpenList(vm)) : OpenList(vm)[2] >= u
    /\ \E a, b \in Range(vm.objects) :
          /\ a # b
          /\ vm.heap[a].type = "OBJ_CLOSURE" /\ vm.heap[b].type = "OBJ_CLOSURE"
          /\ Range(vm.heap[a].upvalues) \cap Range(vm.heap[b].upvalues)
                \cap Range(OpenList(vm)) # {}
    /\ \E a, b \in Range(vm.objects) :
          /\ a # b
          /\ vm.heap[a].type = "OBJ_CLOSURE" /\ vm.heap[b].type = "OBJ_CLOSURE"
          /\ Range(vm.heap[a].upvalues) \cap Range(vm.heap[b].upvalues)
                \cap Range(OpenList(vm)) # {}

Upvalues(m) == {o \in Range(m.objects) : m.heap[o].type = "OBJ_UPVALUE"}

\* C24: every upvalue outside the open-upvalue list is closed (its
\* location is its own closed field), and every upvalue of the list
\* points at a stack slot below stackTop; so no closure reaches a stack
\* slot through an upvalue once the frame of the variable is gone.
C24_UpvaluesClosed ==
    vm.status \in {"idle", "running"} =>
       \A o \in Upvalues(vm) :
          IF o \in Range(OpenList(vm))
          THEN vm.heap[o].location \in 0 .. vm.stackTop - 1
          ELSE vm.heap[o].location = -1

\* C25: the class that OP_CLASS pushes has an initialised empty method
\* table: tableGet finds no method name in it.
C25_ClassStartsEmpty ==
    ghost.last.op = "CLASS" => ghost.last.ok

\* C26: the string vm.initString is a key of the string table from initVM
\* on, and interning the characters "init" again yields that same string.
C26_InitInterned ==
    vm.status \in {"idle", "running"} =>
       /\ vm.initString \in TableKeys(vm.strings)
       /\ copyString(vm, S_init).ret = vm.initString

\* C27: OP_SET_GLOBAL of a name that no global has raises the runtime
\* error "Undefined variable", leaves the globals table without the name
\* and leaves every other global with its value; OP_GET_GLOBAL and
\* OP_SET_GLOBAL of the name raise the error again afterwards.
C27_UndefinedAssign ==
    ghost.last.op \in {"SET_UNDEFINED", "GET_UNDEFINED"} => ghost.last.ok

\* The entries of the parser's history of one kind, and whether a
\* synchronization lies strictly between two entries.
EventsOf(events, e) == {i \in 1..Len(events) : events[i].e = e}

SynchronizedBetween(events, i, j) ==
    \E k \in i + 1 .. j - 1 : events[k].e = "synchronize"

\* A synchronization stopped where it had to: at the first place that is
\* just after a semicolon, at a token that starts a statement or at the end
\* of the text.
StoppedAtBoundary(event) ==
    LET Before(k) == IF k = 1 THEN event.before ELSE event.skipped[k - 1].type IN
    /\ \/ event.previous = "TOKEN_SEMICOLON"
       \/ event.current \in StatementStarts \cup {"TOKEN_EOF"}
    /\ \A k \in 1..Len(event.skipped) :
          /\ Before(k) # "TOKEN_SEMICOLON"
          /\ event.skipped[k].type \notin StatementStarts \cup {"TOKEN_EOF"}

\* C28: in one compilation an error met in panic mode is not reported: of
\* two reports the later one comes after a synchronize that followed the
\* earlier one, the messages written are those of the reports, and an
\* error is passed over only between a report and the next synchronize;
\* parser.panicMode is set by a report and cleared by synchronize alone;
\* synchronize is called in panic mode and stops skipping at the first
\* place that is just after a semicolon, at one of class, fun, var, for,
\* if, while, print, return, or at the end of the text.
C28_PanicMode ==
    LET events == vm.parser.events
        reports == EventsOf(events, "reported")
        Panicking(j) == \E i \in reports :
                           i < j /\ ~SynchronizedBetween(events, i, j)
    IN  /\ \A i, j \in reports : i < j => SynchronizedBetween(events, i, j)
        /\ \A j \in EventsOf(events, "suppressed") : Panicking(j)
        /\ \A j \in EventsOf(events, "synchronize") : Panicking(j)
        /\ \A j \in EventsOf(events, "stopped") : StoppedAtBoundary(events[j])
        /\ vm.parser.panicMode <=> Panicking(Len(events) + 1)
        /\ vm.parser.hadError <=> reports # {}
        /\ fed # << >> /\ vm.status = "idle" /\ reports # {}
              => Len(ghost.compiled.errors) = Cardinality(reports)

\* "print + 1 2; print 3 print 4;" was compiled: the missing operand was
\* reported, the missing semicolon after it was passed over, synchronize
\* skipped to the semicolon, and the second statement's missing semicolon
\* was reported and synchronize stopped at print.
C28_Witness ==
    LET events == vm.parser.events IN
    /\ Len(events) = 7
    /\ events[1].e = "reported" /\ events[1].message = "Expect expression."
    /\ events[2].e = "suppressed"
    /\ events[3].e = "synchronize"
    /\ events[4].e = "stopped" /\ Len(events[4].skipped) = 3
    /\ events[4].previous = "TOKEN_SEMICOLON"
    /\ events[5].e = "reported" /\ events[5].message = "Expect ';' after value."
    /\ events[6].e = "synchronize"
    /\ events[7].e = "stopped" /\ events[7].skipped = << >>
    /\ events[7].current = "TOKEN_PRINT"
    /\ ~vm.parser.panicMode /\ vm.result = "INTERPRET_COMPILE_ERROR"
\* OP_INVOKE from the state the VM is in, and OP_GET_PROPERTY followed by
\* OP_CALL from the same state: the property is read with the receiver on
\* top of the stack, the arguments are pushed and the value is called.
\* The operands of OP_INVOKE are the operand of OP_GET_PROPERTY followed by
\* that of OP_CALL.
Fused == runInvoke(Fetched)

Unfused ==
    LET arguments == SubSeq([i \in 1 .. vm.stackTop |-> vm.stack[i]],
                            vm.stackTop - ArgCount2 + 1, vm.stackTop)
    IN  Then(runGetProperty([Fetched EXCEPT !.stackTop = @ - ArgCount2]), LAMBDA m1 :
          IF m1.status = "crashed" \/ m1.ret # "continue" THEN m1
          ELSE runCall(Loop(LAMBDA m2, i : push(m2, arguments[i]),
                            m1, 1, ArgCount2)))

\* What the two leave behind is the same but for the bound method that
\* OP_GET_PROPERTY made for a method and OP_CALL took apart again.
SameOutcome(m1, m2) ==
    /\ m1.status = m2.status
    /\ m1.status # "crashed" =>
          /\ m1.ret = m2.ret
          /\ m1.frames = m2.frames
          /\ m1.stackTop = m2.stackTop
          /\ \A i \in 1 .. m1.stackTop : m1.stack[i] = m2.stack[i]
          /\ m1.stderr = m2.stderr /\ m1.trace = m2.trace
          /\ m1.stdout = m2.stdout
          /\ m1.globals = m2.globals /\ m1.strings = m2.strings
          /\ m1.openUpvalues = m2.openUpvalues
          /\ Range(m1.objects) \subseteq Range(m2.objects)
          /\ \A o \in Range(m1.objects) : m1.heap[o] = m2.heap[o]
          /\ \A o \in Range(m2.objects) \ Range(m1.objects) :
                /\ m2.heap[o].type = "OBJ_BOUND_METHOD"
                /\ m2.heap[o].receiver = peek(vm, ArgCount2)

AtInvoke ==
    /\ vm.status = "running" /\ NextOp = OP_INVOKE
    /\ IsObjType(vm, peek(vm, ArgCount2), "OBJ_INSTANCE")

\* C29: where OP_INVOKE stands with an instance as receiver, OP_INVOKE and
\* OP_GET_PROPERTY followed by OP_CALL of the same name and argument count
\* end alike: the same frame for the same closure over the same receiver
\* and arguments or the same value in place of the call, the same runtime
\* error, and the same stack, globals and objects but for the bound method
\* that OP_GET_PROPERTY makes for a method.
C29_InvokeFused == AtInvoke => SameOutcome(Fused, Unfused)

\* o.m(1) is about to run, m a method of o's class: OP_INVOKE pushes the
\* frame of m over o and 1, and OP_GET_PROPERTY with OP_CALL does so by way
\* of a bound method
C29_Witness ==
    /\ AtInvoke /\ ArgCount2 = 1
    /\ Fused.ret = "continue" /\ Len(Fused.frames) = Len(vm.frames) + 1
    /\ Fused.stack[frame(Fused).slots + 1] = peek(vm, 1)
    /\ Range(Unfused.objects) # Range(Fused.objects)
    /\ frame(Unfused).closure = frame(Fused).closure

\* C30: while a program that compile() accepted runs, no more than
\* STACK_MAX (64 * 256) values are on the stack: no push finds the stack
\* full and no pop finds it empty.
C30_StackWithinCapacity ==
    /\ vm.stackTop <= STACK_MAX
    /\ vm.fault = "none"

\* the characters of the token the scanner gave last
Lexeme ==
    SubSeq(vm.scanner.source, vm.token.start + 1, vm.token.start + vm.token.length)

\* C37: a token of letters and digits has the type of a reserved word
\* exactly when its lexeme is the spelling of that word, and is an
\* identifier otherwise.
C37_ReservedExact ==
    /\ vm.token.type \in DOMAIN ReservedWords => Lexeme = ReservedWords[vm.token.type]
    /\ vm.token.type = "TOKEN_IDENTIFIER" => Lexeme \notin Range(ReservedWords)
    /\ vm.token.length > 0 /\ isAlpha(Lexeme[1]) =>
          vm.token.type \in DOMAIN ReservedWords \cup {"TOKEN_IDENTIFIER"}

\* The step about to be taken is an OP_CALL whose callee is a class with
\* an initialized method table, and the process survives it.
AtClassCall ==
    /\ vm.status = "running" /\ vm'.status \in {"running", "idle"}
    /\ NextOp = OP_CALL
    /\ IsObjType(vm, peek(vm, Operand1), "OBJ_CLASS")
    /\ ~IsIndeterminate(vm.heap[AS_OBJ(peek(vm, Operand1))].methods)

\* the step ended in the runtime error with this message
RaisedBy(message) ==
    /\ vm'.status = "idle" /\ vm'.result = "INTERPRET_RUNTIME_ERROR"
    /\ vm'.stderr = Append(vm.stderr, message)

\* the callee's slot holds an instance of the class that the step created
ConstructedIn(klass, slot) ==
    /\ vm'.stackTop = vm.stackTop
    /\ IsObjType(vm', vm'.stack[slot], "OBJ_INSTANCE")
    /\ vm'.heap[AS_OBJ(vm'.stack[slot])].klass = klass
    /\ AS_OBJ(vm'.stack[slot]) \notin Range(vm.objects)

ClassCallEffect ==
    LET argc  == Operand1
        slot  == vm.stackTop - argc
        klass == AS_OBJ(peek(vm, argc))
        inits == MethodNamed(vm, klass, S_init)
    IN
    IF inits = {}
    THEN IF argc = 0
         THEN /\ vm'.status = "running" /\ Len(vm'.frames) = Len(vm.frames)
              /\ ConstructedIn(klass, slot)
         ELSE RaisedBy(expectedArguments(0, argc))
    ELSE \E init \in inits :
           LET arity == vm.heap[vm.heap[AS_OBJ(init)].function].arity IN
           IF argc # arity THEN RaisedBy(expectedArguments(arity, argc))
           ELSE IF Len(vm.frames) = FRAMES_MAX THEN RaisedBy("Stack overflow.")
           ELSE /\ vm'.status = "running" /\ Len(vm'.frames) = Len(vm.frames) + 1
                /\ frame(vm') = [closure |-> AS_OBJ(init), ip |-> 0, slots |-> slot - 1]
                /\ ConstructedIn(klass, slot)

\* C31: a call of a class puts a new instance of it in the callee's slot;
\* when the class's method table has an entry named init the call is the
\* call of that method with the same arguments, under its arity check;
\* when it has none the call returns at once if there are no arguments
\* and is the runtime error "Expected 0 arguments" otherwise.
C31_CallClass == [][AtClassCall => ClassCallEffect]_vars

\* The step about to be taken is the OP_RETURN of a call (a frame other
\* than the script's), and the process survives it.
AtReturn ==
    /\ vm.status = "running" /\ vm'.status \in {"running", "idle"}
    /\ NextOp = OP_RETURN
    /\ Len(vm.frames) > 1

\* base is the callee's slot, as an offset into vm.stack
ReturnEffect ==
    LET base == frame(vm).slots IN
    /\ vm'.status = "running"
    /\ vm'.stackTop = base + 1
    /\ vm'.stack[base + 1] = peek(vm, 0)
    /\ \A i \in 1 .. base : vm'.stack[i] = vm.stack[i]
    /\ vm'.frames = SubSeq(vm.frames, 1, Len(vm.frames) - 1)
    /\ \A o \in Range(OpenList(vm)) :
          IF vm.heap[o].location >= base
          THEN /\ vm'.heap[o].location = -1
               /\ vm'.heap[o].closed = vm.stack[vm.heap[o].location + 1]
          ELSE vm'.heap[o] = vm.heap[o]
    /\ Range(OpenList(vm')) = {o \in Range(OpenList(vm)) : vm.heap[o].location < base}

\* C35: the OP_RETURN of a call leaves the result in the callee's slot
\* with stackTop one above it, in place of the callee, its arguments and
\* whatever the call had above them; it closes the upvalues of the open
\* list that point at or above the callee's slot, each with the value of
\* its slot, and no other; the slots below the callee's and the frames of
\* the callers, each with its closure and its resume position, are as
\* they were.
C35_ReturnEffect == [][AtReturn => ReturnEffect]_vars

\* outer() has returned to the script: its x was captured by get and set,
\* and the upvalue now holds the 1 that the slot held
C35_Witness ==
    /\ session = 5 /\ fed = <<1>>
    /\ ghost.last.op = "RETURN" /\ vm.status = "running"
    /\ Len(vm.frames) = 1 /\ vm.stackTop = 2 /\ vm.stack[2] = NIL_VAL
    /\ OpenList(vm) = << >>
    /\ \E o \in Upvalues(vm) :
          vm.heap[o].location = -1 /\ vm.heap[o].closed = NUMBER_VAL(1)

\* C38: between the steps of the program no object of the all-objects
\* list has its mark bit set, and none had when the latest collection
\* started: an object is created with the bit clear and sweep clears it
\* in every object it keeps.
C38_AllWhite ==
    /\ vm.status \in {"idle", "running"} =>
          \A o \in Range(vm.objects) : ~vm.heap[o].isMarked
    /\ vm.gcLog.marked = {}

\* a collection has run, during a step that had allocated before it, and
\* it freed objects and kept others, which it had marked
C38_Witness ==
    /\ Collected /\ vm.status = "running"
    /\ vm.gcLog.freed # {}
    /\ vm.gcLog.kept # {} /\ vm.gcLog.kept \subseteq vm.gcLog.reach

\* the tables of the machine: vm.globals, vm.strings, the method table of
\* every class and the field table of every instance
TablesOf(m) ==
    {m.globals, m.strings}
    \cup {m.heap[o].methods : o \in {c \in Range(m.objects) : m.heap[c].type = "OBJ_CLASS"}}
    \cup {m.heap[o].fields : o \in {i \in Range(m.objects) : m.heap[i].type = "OBJ_INSTANCE"}}

\* the buckets that hold an entry or a tombstone
Occupied(t) == {i \in 1 .. Len(t.entries) : t.entries[i] # EmptyEntry}

\* a table that findEntry and tableFindString leave for every key: it has
\* a bucket that is neither an entry nor a tombstone, its count is no
\* less than the number of its entries and tombstones and no more than
\* 0.75 of its capacity
Probed(t) ==
    /\ Len(t.entries) = t.capacity
    /\ \E i \in 1 .. t.capacity : t.entries[i] = EmptyEntry
    /\ Cardinality(Occupied(t)) <= t.count
    /\ 4 * t.count <= 3 * t.capacity

\* C40: every table with a capacity other than zero has a bucket that is
\* truly empty, its count covering its entries and its tombstones and
\* staying at or below 0.75 of the capacity; so the probe loops end for
\* every key.
C40_EmptyBucket ==
    vm.status \in {"idle", "running"} =>
       \A t \in TablesOf(vm) : t.capacity # 0 => Probed(t)

\* the objects that reach themselves along references
OnCycle(m) ==
    {o \in Range(m.objects) :
        o \in ReachFrom(m.heap, ObjRefs(m.heap, o), ObjRefs(m.heap, o))}

\* C32: in a collection every object is pushed on the gray stack at most
\* once -- markObject leaves a marked object and the stack as they are --
\* so traceReferences takes no more turns than there are objects and ends
\* with the stack empty, whatever cycles the references form; the objects
\* it went through are those reachable from the roots.
C32_MarkOnce ==
    /\ vm.status # "bound"
    /\ Collected =>
          /\ \A i, j \in 1 .. Len(vm.gcLog.grayed) :
                vm.gcLog.grayed[i] = vm.gcLog.grayed[j] => i = j
          /\ Range(vm.gcLog.grayed) \subseteq vm.gcLog.objects
          /\ vm.gcLog.reach \cap vm.gcLog.objects \subseteq Range(vm.gcLog.grayed)
          /\ vm.grayStack = << >>

\* a collection went through an instance that holds, in a field, a bound
\* method of which it is the receiver
C32_Witness ==
    /\ Collected /\ vm.status \in {"idle", "running"}
    /\ \E o \in OnCycle(vm) \cap Range(vm.gcLog.grayed) :
          /\ vm.heap[o].type = "OBJ_INSTANCE"
          /\ \E b \in ObjRefs(vm.heap, o) \cap Range(vm.gcLog.grayed) :
                /\ vm.heap[b].type = "OBJ_BOUND_METHOD"
                /\ vm.heap[b].receiver = OBJ_VAL(o)

Functions(m) == {o \in Range(m.objects) : m.heap[o].type = "OBJ_FUNCTION"}

\* the code that takes the locals of a scope off the stack, last first
Leaving(declared) ==
    [i \in 1 .. Len(declared) |->
        IF declared[Len(declared) + 1 - i] THEN OP_CLOSE_UPVALUE ELSE OP_POP]

\* C33: where a declaration or statement of a function starts or ends, the
\* frame that runs the function holds as many values as the compiler had
\* locals there, so the slot of a local is its place above the frame base
\* and a statement that declares nothing leaves the height as it found it;
\* leaving a scope emits, for the locals declared in it and nothing else,
\* one instruction each, last local first: CLOSE_UPVALUE if the local was
\* captured, POP if not.
C33_Balanced ==
    /\ vm.status = "running" /\ Len(vm.frames) > 0 /\ ~vm.ub =>
          \A h \in vm.heap[vm.heap[frame(vm).closure].function].heights :
             frame(vm).ip = h[1] => vm.stackTop - frame(vm).slots = h[2]
    /\ \A f \in Functions(vm) : \A sc \in vm.heap[f].scopes :
          /\ sc.emitted = Leaving(sc.declared)
          /\ sc.left = sc.opened

\* a function that left a scope with a captured local and one that was
\* not, and is now running behind that scope with only its slot zero
C33_Witness ==
    /\ vm.status = "running" /\ Len(vm.frames) > 0
    /\ LET f == vm.heap[frame(vm).closure].function
       IN  \E sc \in vm.heap[f].scopes :
              /\ TRUE \in Range(sc.declared) /\ FALSE \in Range(sc.declared)
              /\ frame(vm).ip = sc.from + Len(sc.emitted)
              /\ vm.stackTop - frame(vm).slots = sc.opened

\* the two bytes behind the opcode at offset, as READ_SHORT reads them
Short(code, offset) == code[offset + 2] * 256 + code[offset + 3]

\* The jumps of a for statement go where the statement says: the exit jump
\* to the POP behind the loop, the body jump over the increment to the
\* body, the loop behind the increment to the condition, the loop behind
\* the body to the increment or, without one, to the condition.
Lands(code, L) ==
    /\ L.test # -1 =>
          /\ code[L.test + 1] = OP_JUMP_IF_FALSE
          /\ L.test + 3 + Short(code, L.test) = L.exit
          /\ code[L.exit + 1] = OP_POP
    /\ L.incr # -1 =>
          /\ code[L.incr - 2] = OP_JUMP
          /\ L.incr + Short(code, L.incr - 3) = L.body
          /\ code[L.body - 2] = OP_LOOP
          /\ L.body - Short(code, L.body - 3) = L.cond
    /\ code[L.back + 1] = OP_LOOP
    /\ L.back + 3 - Short(code, L.back) = IF L.incr # -1 THEN L.incr ELSE L.cond

\* Of the parts that start at the place of an event, the one that runs
\* last: clauses that are left out take no room.
Governing(e) ==
    IF "body" \in e.at THEN "body"
    ELSE IF "cond" \in e.at THEN "cond"
    ELSE CHOOSE p \in e.at : TRUE

\* the part that the statement enters next
Follows(e) ==
    LET g == Governing(e)
    IN  CASE g = "init" -> "cond"
          [] g = "cond" -> IF e.parts.test # -1 THEN "test" ELSE "body"
          [] g = "test" -> IF e.falsy THEN "exit" ELSE "body"
          [] g = "body" -> IF e.parts.incr # -1 THEN "incr" ELSE "cond"
          [] g = "incr" -> "cond"
          [] g = "exit" -> "end"
          [] g = "end"  -> "init"

\* what the line has run of one for statement in one frame
PathOf(loop) == SelectSeq(vm.path, LAMBDA e : e.loop = loop)

\* C34: a for statement runs its initializer once, then the condition,
\* and after a condition that holds the body, the increment and the
\* condition again; after the first condition that is falsey it runs the
\* POP behind the loop and nothing else of the statement; the frame is as
\* high behind the statement as in front of it; and the operands of its
\* jumps and loops lead to the first byte of these parts.
C34_ForOrder ==
    /\ \A e \in Range(vm.path) :
          LET q == PathOf(e.loop)
          IN  /\ "init" \in q[1].at
              /\ \A i \in 1 .. Len(q) - 1 : Follows(q[i]) \in q[i + 1].at
              /\ \A i \in 1 .. Len(q) :
                    q[i].at \cap {"init", "end"} # {} => q[i].height = q[i].parts.count
    /\ \A f \in Functions(vm) : \A L \in vm.heap[f].loops : Lands(vm.heap[f].code, L)

\* a loop with all three clauses has gone round twice and is left: the
\* third condition was falsey
C34_Witness ==
    \E e \in Range(vm.path) :
       LET q == PathOf(e.loop)
           times(p) == Cardinality({i \in 1 .. Len(q) : p \in q[i].at})
       IN  /\ e.parts.test # -1 /\ e.parts.incr # -1 /\ e.parts.init # e.parts.cond
           /\ times("init") = 1 /\ times("cond") = 3 /\ times("body") = 2
           /\ times("incr") = 2 /\ times("exit") = 1
           /\ "end" \in q[Len(q)].at /\ q[Len(q) - 1].falsy

\* the bytes of the array of a table
TableBytes(t) == IF IsIndeterminate(t) THEN 0 ELSE SizeOf.Entry * t.capacity

\* the bytes of the blocks that were allocated for an object: its struct
\* and the arrays it owns
BlockBytes(obj) ==
    CASE obj.type = "OBJ_STRING"   -> SizeOf.ObjString + SizeOf.char * (Len(obj.chars) + 1)
      [] obj.type = "OBJ_FUNCTION" ->
            SizeOf.ObjFunction + (SizeOf.uint8_t + SizeOf.int) * obj.capacity
               + SizeOf.Value * obj.constCapacity
      [] obj.type = "OBJ_CLOSURE"  -> SizeOf.ObjClosure + SizeOf.pointer * obj.upvalueCount
      [] obj.type = "OBJ_CLASS"    -> SizeOf.ObjClass + TableBytes(obj.methods)
      [] obj.type = "OBJ_INSTANCE" -> SizeOf.ObjInstance + TableBytes(obj.fields)
      [] OTHER                     -> structSize(obj)

RECURSIVE SumBytes(_, _, _, _)
SumBytes(heap, list, lo, hi) ==
    CASE lo > hi -> 0
      [] lo = hi -> BlockBytes(heap[list[lo]])
      [] OTHER   -> SumBytes(heap, list, lo, (lo + hi) \div 2)
                       + SumBytes(heap, list, (lo + hi) \div 2 + 1, hi)

\* The blocks that reallocate handed out and that were not freed: those of
\* the objects of the list, the arrays of vm.globals and vm.strings, and
\* the arrays that were dropped without a free.
LiveBytes(m) ==
    SumBytes(m.heap, m.objects, 1, Len(m.objects))
       + TableBytes(m.globals) + TableBytes(m.strings) + m.leaked

\* C39: between the steps of the program bytesAllocated is the sum of the
\* sizes of the blocks that are allocated.
C39_Ledger ==
    vm.status \in {"idle", "running"} => vm.bytesAllocated = LiveBytes(vm)

\* the request that a step of AllocSpec makes collects
Collects(i) ==
    /\ fed'[i] > fed[i]
    /\ vm.bytesAllocated + fed'[i] - fed[i] > vm.nextGC

\* C36: reallocate starts a collection when, and only when, the request
\* asks for more than the block had and the bytes it adds bring
\* bytesAllocated above nextGC.  nextGC is 1 MiB until the first
\* collection, and a collection leaves it at twice the bytesAllocated that
\* it ends with; a request that does not collect leaves nextGC as it was.
C36_Trigger ==
    [][\A i \in 1 .. MaxBlocks : fed'[i] # fed[i] =>
          /\ vm.gcLog.runs = 0 => vm.nextGC = 1024 * 1024
          /\ vm'.gcLog.runs = vm.gcLog.runs + (IF Collects(i) THEN 1 ELSE 0)
          /\ IF Collects(i)
             THEN /\ vm'.nextGC = 2 * vm'.bytesAllocated
                  /\ vm'.gcLog.before = vm.bytesAllocated + fed'[i] - fed[i]
                  /\ vm'.gcLog.threshold = vm.nextGC
                  /\ vm'.gcLog.after = vm'.bytesAllocated
             ELSE /\ vm'.nextGC = vm.nextGC
                  /\ vm'.bytesAllocated = vm.bytesAllocated + fed'[i] - fed[i]]_vars

\* the first collection: a request brought bytesAllocated above 1 MiB, the
\* collection freed the function of the line, and nextGC is twice what
\* was left
C36_Witness ==
    /\ vm.gcLog.runs = 1 /\ vm.gcLog.threshold = 1024 * 1024
    /\ vm.gcLog.before > vm.gcLog.threshold
    /\ \E o \in vm.gcLog.freed : ~Live(vm.heap, o)
    /\ vm.bytesAllocated < vm.gcLog.before
    /\ vm.nextGC = 2 * vm.bytesAllocated

====
